---------------------------- MODULE Spec2Model ----------------------------
(***************************************************************************)
(* Model of basictool.py: the NeoBASIC tokeniser ("make") and lister       *)
(* ("list").  Text is modelled as sequences of character codes, byte       *)
(* lists as sequences of integers.  Python indices are 0-based: At(b, i)   *)
(* is Python's b[i].                                                       *)
(***************************************************************************)
EXTENDS Integers, Sequences, FiniteSets, TLC

VARIABLES
  pc,           \* position of the run being modelled
  arg,          \* the argument of the codec call under study
  tcode,        \* Tokeniser.code
  val,          \* the value the lister accumulates (v / the digit text)
  store,        \* IdentifierStore.store
  identifiers,  \* IdentifierStore.identifiers
  optLibrary,   \* the make command's -l flag
  file,         \* the lines of the input file addFile has handled so far
  nextLine,     \* Program.nextLine
  libraryMode,  \* Program.libraryMode
  code,         \* Program.code
  defines,      \* Program.identifiers (the #define substitutions)
  outFile,      \* the output file: Absent, or its content
  bin,          \* ProgramLister.bin
  lp,           \* list_code's pointer "code"
  text,         \* ProgramLister.text
  listing       \* ProgramLister.code_listing

vars == << pc, arg, tcode, val, store, identifiers, optLibrary, file,
           nextLine, libraryMode, code, defines, outFile, bin, lp, text, listing >>

-----------------------------------------------------------------------------
(* Python helpers *)

None == -1

At(b, i) == b[i + 1]

InRange(b, i) == i >= 0 /\ i < Len(b)

\* str.strip() whitespace
WhiteSpace == {9, 10, 11, 12, 13, 28, 29, 30, 31, 32}

IsDigit(c) == c >= 48 /\ c <= 57

IsLetter(c) == (c >= 65 /\ c <= 90) \/ (c >= 97 /\ c <= 122)

IsHexDigit(c) == IsDigit(c) \/ (c >= 65 /\ c <= 70) \/ (c >= 97 /\ c <= 102)

UpperChar(c) == IF c >= 97 /\ c <= 122 THEN c - 32 ELSE c

LowerChar(c) == IF c >= 65 /\ c <= 90 THEN c + 32 ELSE c

Upper(s) == [i \in 1..Len(s) |-> UpperChar(s[i])]

Lower(s) == [i \in 1..Len(s) |-> LowerChar(s[i])]

Drop(s, k) == SubSeq(s, k + 1, Len(s))

Take(s, k) == SubSeq(s, 1, k)

IsSpace(c) == c \in WhiteSpace

\* [A-Za-z0-9_.]
IsWordChar(c) == IsLetter(c) \/ IsDigit(c) \/ c = 95 \/ c = 46

\* the character classes of the regular expressions and of strip()
InClass(class, c) ==
  CASE class = "space" -> IsSpace(c)
    [] class = "digit" -> IsDigit(c)
    [] class = "hex" -> IsHexDigit(c)
    [] class = "word" -> IsWordChar(c)
    [] class = "nonletter" -> ~IsLetter(c)

\* length of the maximal prefix of s whose characters are in the class
Span(s, class) ==
  CHOOSE n \in 0..Len(s) :
    /\ (n = Len(s) \/ ~InClass(class, s[n + 1]))
    /\ \A i \in 1..n : InClass(class, s[i])

\* length of the maximal suffix of s whose characters are in the class
SpanBack(s, class) ==
  CHOOSE n \in 0..Len(s) :
    /\ (n = Len(s) \/ ~InClass(class, s[Len(s) - n]))
    /\ \A i \in (Len(s) - n + 1)..Len(s) : InClass(class, s[i])

LStrip(s) == Drop(s, Span(s, "space"))

RStrip(s) == Take(s, Len(s) - SpanBack(s, "space"))

Strip(s) == RStrip(LStrip(s))

StartsWith(s, prefix) ==
  Len(s) >= Len(prefix) /\ Take(s, Len(prefix)) = prefix

EndsWith(s, suffix) ==
  Len(s) >= Len(suffix) /\ Drop(s, Len(s) - Len(suffix)) = suffix

\* str.find(c): index of the first c, -1 when there is none
Find(s, c) ==
  IF \E i \in 1..Len(s) : s[i] = c
    THEN (CHOOSE i \in 1..Len(s) : s[i] = c /\ \A j \in 1..(i - 1) : s[j] # c) - 1
    ELSE -1

SpanDigits(s) == Span(s, "digit")

SpanHex(s) == Span(s, "hex")

SpanWord(s) == Span(s, "word")

\* int(digits) and int(digits, 16)
RECURSIVE ParseInt(_)
ParseInt(s) ==
  IF s = <<>> THEN 0 ELSE ParseInt(Take(s, Len(s) - 1)) * 10 + (s[Len(s)] - 48)

HexVal(c) == IF IsDigit(c) THEN c - 48 ELSE UpperChar(c) - 55

RECURSIVE ParseHex(_)
ParseHex(s) ==
  IF s = <<>> THEN 0 ELSE ParseHex(Take(s, Len(s) - 1)) * 16 + HexVal(s[Len(s)])

\* str(v)
RECURSIVE DecStr(_)
DecStr(v) == IF v < 10 THEN <<48 + v>> ELSE Append(DecStr(v \div 10), 48 + (v % 10))

HexChar(d) == IF d < 10 THEN 48 + d ELSE 87 + d

\* "{0:x}".format(v)
RECURSIVE HexStr(_)
HexStr(v) == IF v < 16 THEN <<HexChar(v)>> ELSE Append(HexStr(v \div 16), HexChar(v % 16))

-----------------------------------------------------------------------------
(* TokenSet *)

\* TokenSet.create: the names TokenSet.add gives the ids of each block (lower
\* case, the ":" modifier cut off by Token.__init__); an unnamed padding
\* token has the empty name
TokenNameOf(id) ==
  CASE id = 32 -> <<43>>  \* +
    [] id = 33 -> <<45>>  \* -
    [] id = 34 -> <<42>>  \* *
    [] id = 35 -> <<47>>  \* /
    [] id = 36 -> <<62, 62>>  \* >>
    [] id = 37 -> <<60, 60>>  \* <<
    [] id = 38 -> <<37>>  \* %
    [] id = 39 -> <<92>>  \* backslash
    [] id = 40 -> <<38>>  \* &
    [] id = 41 -> <<124>>  \* |
    [] id = 42 -> <<94>>  \* ^
    [] id = 43 -> <<62>>  \* >
    [] id = 44 -> <<62, 61>>  \* >=
    [] id = 45 -> <<60>>  \* <
    [] id = 46 -> <<60, 61>>  \* <=
    [] id = 47 -> <<60, 62>>  \* <>
    [] id = 48 -> <<61>>  \* =
    [] id = 128 -> <<33, 33, 115, 116, 114>>  \* !!str
    [] id = 129 -> <<36>>  \* $
    [] id = 130 -> <<40>>  \* (
    [] id = 131 -> <<114, 97, 110, 100, 40>>  \* rand(
    [] id = 132 -> <<114, 110, 100, 40>>  \* rnd(
    [] id = 133 -> <<106, 111, 121, 112, 97, 100, 40>>  \* joypad(
    [] id = 134 -> <<105, 110, 116, 40>>  \* int(
    [] id = 135 -> <<116, 105, 109, 101, 40>>  \* time(
    [] id = 136 -> <<101, 118, 101, 110, 116, 40>>  \* event(
    [] id = 137 -> <<105, 110, 107, 101, 121, 36, 40>>  \* inkey$(
    [] id = 138 -> <<97, 115, 99, 40>>  \* asc(
    [] id = 139 -> <<99, 104, 114, 36, 40>>  \* chr$(
    [] id = 140 -> <<112, 111, 105, 110, 116, 40>>  \* point(
    [] id = 141 -> <<108, 101, 110, 40>>  \* len(
    [] id = 142 -> <<97, 98, 115, 40>>  \* abs(
    [] id = 143 -> <<115, 103, 110, 40>>  \* sgn(
    [] id = 144 -> <<104, 105, 116, 40>>  \* hit(
    [] id = 145 -> <<115, 112, 111, 105, 110, 116, 40>>  \* spoint(
    [] id = 146 -> <<109, 105, 100, 36, 40>>  \* mid$(
    [] id = 147 -> <<108, 101, 102, 116, 36, 40>>  \* left$(
    [] id = 148 -> <<114, 105, 103, 104, 116, 36, 40>>  \* right$(
    [] id = 149 -> <<116, 114, 117, 101>>  \* true
    [] id = 150 -> <<102, 97, 108, 115, 101>>  \* false
    [] id = 151 -> <<105, 110, 115, 116, 114, 40>>  \* instr(
    [] id = 152 -> <<109, 111, 117, 115, 101, 40>>  \* mouse(
    [] id = 153 -> <<33, 33, 117, 110, 54>>  \* !!un6
    [] id = 154 -> <<33, 33, 117, 110, 55>>  \* !!un7
    [] id = 155 -> <<107, 101, 121, 40>>  \* key(
    [] id = 156 -> <<112, 101, 101, 107, 40>>  \* peek(
    [] id = 157 -> <<100, 101, 101, 107, 40>>  \* deek(
    [] id = 158 -> <<97, 108, 108, 111, 99, 40>>  \* alloc(
    [] id = 159 -> <<109, 97, 120, 40>>  \* max(
    [] id = 160 -> <<109, 105, 110, 40>>  \* min(
    [] id = 176 -> <<119, 104, 105, 108, 101>>  \* while
    [] id = 177 -> <<119, 101, 110, 100>>  \* wend
    [] id = 178 -> <<105, 102>>  \* if
    [] id = 179 -> <<101, 110, 100, 105, 102>>  \* endif
    [] id = 180 -> <<100, 111>>  \* do
    [] id = 181 -> <<108, 111, 111, 112>>  \* loop
    [] id = 182 -> <<114, 101, 112, 101, 97, 116>>  \* repeat
    [] id = 183 -> <<117, 110, 116, 105, 108>>  \* until
    [] id = 184 -> <<112, 114, 111, 99>>  \* proc
    [] id = 185 -> <<101, 110, 100, 112, 114, 111, 99>>  \* endproc
    [] id = 186 -> <<102, 111, 114>>  \* for
    [] id = 187 -> <<110, 101, 120, 116>>  \* next
    [] id = 188 -> <<99, 97, 115, 101>>  \* case
    [] id = 189 -> <<101, 110, 100, 99, 97, 115, 101>>  \* endcase
    [] id = 190 -> <<33, 33, 117, 110, 49>>  \* !!un1
    [] id = 191 -> <<116, 104, 101, 110>>  \* then
    [] id = 192 -> <<33, 33, 101, 110, 100>>  \* !!end
    [] id = 193 -> <<33, 33, 115, 104, 49>>  \* !!sh1
    [] id = 194 -> <<33, 33, 115, 104, 50>>  \* !!sh2
    [] id = 195 -> <<33, 33, 100, 101, 99>>  \* !!dec
    [] id = 196 -> <<116, 111>>  \* to
    [] id = 197 -> <<108, 101, 116>>  \* let
    [] id = 198 -> <<112, 114, 105, 110, 116>>  \* print
    [] id = 199 -> <<105, 110, 112, 117, 116>>  \* input
    [] id = 200 -> <<115, 121, 115>>  \* sys
    [] id = 201 -> <<101, 120, 105, 116>>  \* exit
    [] id = 202 -> <<44>>  \* ,
    [] id = 203 -> <<59>>  \* ;
    [] id = 204 -> <<58>>  \* :
    [] id = 205 -> <<39>>  \* '
    [] id = 206 -> <<41>>  \* )
    [] id = 207 -> <<114, 101, 97, 100>>  \* read
    [] id = 208 -> <<100, 97, 116, 97>>  \* data
    [] id = 209 -> <<101, 108, 115, 101>>  \* else
    [] id = 210 -> <<119, 104, 101, 110>>  \* when
    [] id = 211 -> <<100, 111, 119, 110, 116, 111>>  \* downto
    [] id = 212 -> <<112, 111, 107, 101>>  \* poke
    [] id = 213 -> <<100, 111, 107, 101>>  \* doke
    [] id = 214 -> <<108, 111, 99, 97, 108>>  \* local
    [] id = 215 -> <<99, 97, 108, 108>>  \* call
    [] id = 216 -> <<35>>  \* #
    [] id = 217 -> <<46>>  \* .
    [] id = 218 -> <<108, 105, 110, 101>>  \* line
    [] id = 219 -> <<114, 101, 99, 116>>  \* rect
    [] id = 220 -> <<109, 111, 118, 101>>  \* move
    [] id = 221 -> <<112, 108, 111, 116>>  \* plot
    [] id = 222 -> <<101, 108, 108, 105, 112, 115, 101>>  \* ellipse
    [] id = 223 -> <<116, 101, 120, 116>>  \* text
    [] id = 224 -> <<105, 109, 97, 103, 101>>  \* image
    [] id = 225 -> <<115, 112, 114, 105, 116, 101>>  \* sprite
    [] id = 226 -> <<102, 114, 111, 109>>  \* from
    [] id = 227 -> <<91>>  \* [
    [] id = 228 -> <<93>>  \* ]
    [] id = 229 -> <<64>>  \* @
    [] id = 230 -> <<116, 105, 108, 101, 100, 114, 97, 119>>  \* tiledraw
    [] id = 231 -> <<114, 101, 102>>  \* ref
    [] id = 384 -> <<99, 108, 101, 97, 114>>  \* clear
    [] id = 385 -> <<110, 101, 119>>  \* new
    [] id = 386 -> <<114, 117, 110>>  \* run
    [] id = 387 -> <<115, 116, 111, 112>>  \* stop
    [] id = 388 -> <<101, 110, 100>>  \* end
    [] id = 389 -> <<97, 115, 115, 101, 114, 116>>  \* assert
    [] id = 390 -> <<108, 105, 115, 116>>  \* list
    [] id = 391 -> <<115, 97, 118, 101>>  \* save
    [] id = 392 -> <<108, 111, 97, 100>>  \* load
    [] id = 393 -> <<99, 97, 116>>  \* cat
    [] id = 394 -> <<103, 111, 115, 117, 98>>  \* gosub
    [] id = 395 -> <<103, 111, 116, 111>>  \* goto
    [] id = 396 -> <<114, 101, 116, 117, 114, 110>>  \* return
    [] id = 397 -> <<114, 101, 115, 116, 111, 114, 101>>  \* restore
    [] id = 398 -> <<100, 105, 109>>  \* dim
    [] id = 399 -> <<102, 107, 101, 121>>  \* fkey
    [] id = 400 -> <<99, 108, 115>>  \* cls
    [] id = 401 -> <<105, 110, 107>>  \* ink
    [] id = 402 -> <<102, 114, 97, 109, 101>>  \* frame
    [] id = 403 -> <<115, 111, 108, 105, 100>>  \* solid
    [] id = 404 -> <<98, 121>>  \* by
    [] id = 405 -> <<119, 104, 111>>  \* who
    [] id = 406 -> <<112, 97, 108, 101, 116, 116, 101>>  \* palette
    [] id = 407 -> <<100, 114, 97, 119>>  \* draw
    [] id = 408 -> <<104, 105, 100, 101>>  \* hide
    [] id = 409 -> <<102, 108, 105, 112>>  \* flip
    [] id = 410 -> <<115, 111, 117, 110, 100>>  \* sound
    [] id = 411 -> <<115, 102, 120>>  \* sfx
    [] id = 412 -> <<97, 110, 99, 104, 111, 114>>  \* anchor
    [] id = 413 -> <<103, 108, 111, 97, 100>>  \* gload
    [] id = 414 -> <<100, 101, 102, 99, 104, 114>>  \* defchr
    [] id = 415 -> <<108, 101, 102, 116>>  \* left
    [] id = 416 -> <<114, 105, 103, 104, 116>>  \* right
    [] id = 417 -> <<102, 111, 114, 119, 97, 114, 100>>  \* forward
    [] id = 418 -> <<116, 117, 114, 116, 108, 101>>  \* turtle
    [] id = 419 -> <<99, 108, 111, 115, 101>>  \* close
    [] id = 420 -> <<116, 105, 108, 101, 109, 97, 112>>  \* tilemap
    [] id = 421 -> <<112, 101, 110, 117, 112>>  \* penup
    [] id = 422 -> <<112, 101, 110, 100, 111, 119, 110>>  \* pendown
    [] id = 423 -> <<102, 97, 115, 116>>  \* fast
    [] id = 424 -> <<104, 111, 109, 101>>  \* home
    [] id = 425 -> <<108, 111, 99, 97, 108, 101>>  \* locale
    [] id = 426 -> <<99, 117, 114, 115, 111, 114>>  \* cursor
    [] id = 427 -> <<114, 101, 110, 117, 109, 98, 101, 114>>  \* renumber
    [] id = 428 -> <<100, 101, 108, 101, 116, 101>>  \* delete
    [] id = 429 -> <<101, 100, 105, 116>>  \* edit
    [] id = 430 -> <<109, 111, 110>>  \* mon
    [] id = 431 -> <<111, 108, 100>>  \* old
    [] id = 432 -> <<111, 110>>  \* on
    [] id = 433 -> <<101, 114, 114, 111, 114>>  \* error
    [] id = 434 -> <<112, 105, 110>>  \* pin
    [] id = 435 -> <<111, 117, 116, 112, 117, 116>>  \* output
    [] id = 436 -> <<119, 97, 105, 116>>  \* wait
    [] id = 437 -> <<105, 119, 114, 105, 116, 101>>  \* iwrite
    [] id = 438 -> <<97, 110, 97, 108, 111, 103>>  \* analog
    [] id = 439 -> <<105, 115, 101, 110, 100>>  \* isend
    [] id = 440 -> <<115, 115, 101, 110, 100>>  \* ssend
    [] id = 441 -> <<105, 114, 101, 99, 101, 105, 118, 101>>  \* ireceive
    [] id = 442 -> <<115, 114, 101, 99, 101, 105, 118, 101>>  \* sreceive
    [] id = 443 -> <<105, 116, 114, 97, 110, 115, 109, 105, 116>>  \* itransmit
    [] id = 444 -> <<115, 116, 114, 97, 110, 115, 109, 105, 116>>  \* stransmit
    [] id = 445 -> <<111, 112, 101, 110>>  \* open
    [] id = 446 -> <<108, 105, 98, 114, 97, 114, 121>>  \* library
    [] id = 447 -> <<117, 115, 101, 110, 100>>  \* usend
    [] id = 448 -> <<117, 114, 101, 99, 101, 105, 118, 101>>  \* ureceive
    [] id = 449 -> <<117, 116, 114, 97, 110, 115, 109, 105, 116>>  \* utransmit
    [] id = 450 -> <<117, 99, 111, 110, 102, 105, 103>>  \* uconfig
    [] id = 451 -> <<109, 111, 115>>  \* mos
    [] id = 452 -> <<109, 111, 117, 115, 101>>  \* mouse
    [] id = 453 -> <<115, 104, 111, 119>>  \* show
    [] id = 454 -> <<110, 111, 105, 115, 101>>  \* noise
    [] id = 640 -> <<97, 100, 99>>  \* adc
    [] id = 641 -> <<97, 110, 100>>  \* and
    [] id = 642 -> <<97, 115, 108>>  \* asl
    [] id = 643 -> <<98, 99, 99>>  \* bcc
    [] id = 644 -> <<98, 99, 115>>  \* bcs
    [] id = 645 -> <<98, 101, 113>>  \* beq
    [] id = 646 -> <<98, 105, 116>>  \* bit
    [] id = 647 -> <<98, 109, 105>>  \* bmi
    [] id = 648 -> <<98, 110, 101>>  \* bne
    [] id = 649 -> <<98, 112, 108>>  \* bpl
    [] id = 650 -> <<98, 114, 97>>  \* bra
    [] id = 651 -> <<98, 114, 107>>  \* brk
    [] id = 652 -> <<98, 118, 99>>  \* bvc
    [] id = 653 -> <<98, 118, 115>>  \* bvs
    [] id = 654 -> <<99, 108, 99>>  \* clc
    [] id = 655 -> <<99, 108, 100>>  \* cld
    [] id = 656 -> <<99, 108, 105>>  \* cli
    [] id = 657 -> <<99, 108, 118>>  \* clv
    [] id = 658 -> <<99, 109, 112>>  \* cmp
    [] id = 659 -> <<99, 112, 120>>  \* cpx
    [] id = 660 -> <<99, 112, 121>>  \* cpy
    [] id = 661 -> <<100, 101, 99>>  \* dec
    [] id = 662 -> <<100, 101, 120>>  \* dex
    [] id = 663 -> <<100, 101, 121>>  \* dey
    [] id = 664 -> <<101, 111, 114>>  \* eor
    [] id = 665 -> <<105, 110, 99>>  \* inc
    [] id = 666 -> <<105, 110, 120>>  \* inx
    [] id = 667 -> <<105, 110, 121>>  \* iny
    [] id = 668 -> <<106, 109, 112>>  \* jmp
    [] id = 669 -> <<106, 115, 114>>  \* jsr
    [] id = 670 -> <<108, 100, 97>>  \* lda
    [] id = 671 -> <<108, 100, 120>>  \* ldx
    [] id = 672 -> <<108, 100, 121>>  \* ldy
    [] id = 673 -> <<108, 115, 114>>  \* lsr
    [] id = 674 -> <<110, 111, 112>>  \* nop
    [] id = 675 -> <<111, 114, 97>>  \* ora
    [] id = 676 -> <<112, 104, 97>>  \* pha
    [] id = 677 -> <<112, 104, 112>>  \* php
    [] id = 678 -> <<112, 104, 120>>  \* phx
    [] id = 679 -> <<112, 104, 121>>  \* phy
    [] id = 680 -> <<112, 108, 97>>  \* pla
    [] id = 681 -> <<112, 108, 112>>  \* plp
    [] id = 682 -> <<112, 108, 120>>  \* plx
    [] id = 683 -> <<112, 108, 121>>  \* ply
    [] id = 684 -> <<114, 111, 108>>  \* rol
    [] id = 685 -> <<114, 111, 114>>  \* ror
    [] id = 686 -> <<114, 116, 105>>  \* rti
    [] id = 687 -> <<114, 116, 115>>  \* rts
    [] id = 688 -> <<115, 98, 99>>  \* sbc
    [] id = 689 -> <<115, 101, 99>>  \* sec
    [] id = 690 -> <<115, 101, 100>>  \* sed
    [] id = 691 -> <<115, 101, 105>>  \* sei
    [] id = 692 -> <<115, 116, 97>>  \* sta
    [] id = 693 -> <<115, 116, 120>>  \* stx
    [] id = 694 -> <<115, 116, 121>>  \* sty
    [] id = 695 -> <<115, 116, 122>>  \* stz
    [] id = 696 -> <<116, 97, 120>>  \* tax
    [] id = 697 -> <<116, 97, 121>>  \* tay
    [] id = 698 -> <<116, 114, 98>>  \* trb
    [] id = 699 -> <<116, 115, 98>>  \* tsb
    [] id = 700 -> <<116, 115, 120>>  \* tsx
    [] id = 701 -> <<116, 120, 97>>  \* txa
    [] id = 702 -> <<116, 120, 115>>  \* txs
    [] id = 703 -> <<116, 121, 97>>  \* tya
    [] id = 720 -> <<97, 116, 97, 110, 50, 40>>  \* atan2(
    [] id = 721 -> <<101, 111, 102, 40>>  \* eof(
    [] id = 722 -> <<33, 33, 117, 117, 50>>  \* !!uu2
    [] id = 723 -> <<33, 33, 117, 117, 51>>  \* !!uu3
    [] id = 724 -> <<33, 33, 117, 117, 52>>  \* !!uu4
    [] id = 725 -> <<33, 33, 117, 117, 53>>  \* !!uu5
    [] id = 726 -> <<33, 33, 117, 117, 54>>  \* !!uu6
    [] id = 727 -> <<33, 33, 117, 117, 55>>  \* !!uu7
    [] id = 728 -> <<33, 33, 117, 117, 56>>  \* !!uu8
    [] id = 729 -> <<33, 33, 117, 117, 57>>  \* !!uu9
    [] id = 730 -> <<33, 33, 117, 117, 49, 48>>  \* !!uu10
    [] id = 731 -> <<33, 33, 117, 117, 49, 49>>  \* !!uu11
    [] id = 732 -> <<33, 33, 117, 117, 49, 50>>  \* !!uu12
    [] id = 733 -> <<33, 33, 117, 117, 49, 51>>  \* !!uu13
    [] id = 734 -> <<33, 33, 117, 117, 49, 52>>  \* !!uu14
    [] id = 735 -> <<33, 33, 117, 117, 49, 53>>  \* !!uu15
    [] id = 736 -> <<115, 105, 110, 40>>  \* sin(
    [] id = 737 -> <<99, 111, 115, 40>>  \* cos(
    [] id = 738 -> <<116, 97, 110, 40>>  \* tan(
    [] id = 739 -> <<97, 116, 97, 110, 40>>  \* atan(
    [] id = 740 -> <<108, 111, 103, 40>>  \* log(
    [] id = 741 -> <<101, 120, 112, 40>>  \* exp(
    [] id = 742 -> <<118, 97, 108, 40>>  \* val(
    [] id = 743 -> <<115, 116, 114, 36, 40>>  \* str$(
    [] id = 744 -> <<105, 115, 118, 97, 108, 40>>  \* isval(
    [] id = 745 -> <<115, 113, 114, 40>>  \* sqr(
    [] id = 746 -> <<112, 97, 103, 101>>  \* page
    [] id = 747 -> <<115, 112, 114, 105, 116, 101, 120, 40>>  \* spritex(
    [] id = 748 -> <<115, 112, 114, 105, 116, 101, 121, 40>>  \* spritey(
    [] id = 749 -> <<110, 111, 116, 101, 115, 40>>  \* notes(
    [] id = 750 -> <<104, 105, 109, 101, 109>>  \* himem
    [] id = 751 -> <<118, 98, 108, 97, 110, 107, 115, 40>>  \* vblanks(
    [] id = 752 -> <<101, 114, 114>>  \* err
    [] id = 753 -> <<101, 114, 108>>  \* erl
    [] id = 754 -> <<112, 105, 110, 40>>  \* pin(
    [] id = 755 -> <<105, 114, 101, 97, 100, 40>>  \* iread(
    [] id = 756 -> <<97, 110, 97, 108, 111, 103, 40>>  \* analog(
    [] id = 757 -> <<106, 111, 121, 99, 111, 117, 110, 116, 40>>  \* joycount(
    [] id = 758 -> <<117, 112, 112, 101, 114, 36, 40>>  \* upper$(
    [] id = 759 -> <<105, 100, 101, 118, 105, 99, 101, 40>>  \* idevice(
    [] id = 760 -> <<115, 112, 99, 40>>  \* spc(
    [] id = 761 -> <<116, 97, 98, 40>>  \* tab(
    [] id = 762 -> <<117, 104, 97, 115, 100, 97, 116, 97, 40>>  \* uhasdata(
    [] id = 763 -> <<109, 111, 115, 40>>  \* mos(
    [] id = 764 -> <<104, 97, 118, 101, 109, 111, 117, 115, 101, 40>>  \* havemouse(
    [] id = 765 -> <<108, 111, 119, 101, 114, 36, 40>>  \* lower$(
    [] id = 766 -> <<112, 111, 119, 40>>  \* pow(
    [] id = 767 -> <<101, 120, 105, 115, 116, 115, 40>>  \* exists(
    [] OTHER -> <<>>

\* the ids TokenSet.create assigns, padding included: 0x20-0x30, 0x80-0xE7,
\* 0x180-0x1C6 and 0x280-0x2FF
HasID(id) ==
  \/ (id >= 32 /\ id <= 48)
  \/ (id >= 128 /\ id <= 231)
  \/ (id >= 384 /\ id <= 454)
  \/ (id >= 640 /\ id <= 767)

\* TokenSet.getByID(id).getName(), for an id TokenSet.create assigned
getByID(id) == TokenNameOf(id)

\* nameToToken of a stripped, lower-case name: the id, None when there is no
\* such name; of the unnamed padding tokens the dictionary keeps the last
TokenIdOf(nm) ==
  CASE nm = <<43>> -> 32  \* +
    [] nm = <<45>> -> 33  \* -
    [] nm = <<42>> -> 34  \* *
    [] nm = <<47>> -> 35  \* /
    [] nm = <<62, 62>> -> 36  \* >>
    [] nm = <<60, 60>> -> 37  \* <<
    [] nm = <<37>> -> 38  \* %
    [] nm = <<92>> -> 39  \* backslash
    [] nm = <<38>> -> 40  \* &
    [] nm = <<124>> -> 41  \* |
    [] nm = <<94>> -> 42  \* ^
    [] nm = <<62>> -> 43  \* >
    [] nm = <<62, 61>> -> 44  \* >=
    [] nm = <<60>> -> 45  \* <
    [] nm = <<60, 61>> -> 46  \* <=
    [] nm = <<60, 62>> -> 47  \* <>
    [] nm = <<61>> -> 48  \* =
    [] nm = <<33, 33, 115, 116, 114>> -> 128  \* !!str
    [] nm = <<36>> -> 129  \* $
    [] nm = <<40>> -> 130  \* (
    [] nm = <<114, 97, 110, 100, 40>> -> 131  \* rand(
    [] nm = <<114, 110, 100, 40>> -> 132  \* rnd(
    [] nm = <<106, 111, 121, 112, 97, 100, 40>> -> 133  \* joypad(
    [] nm = <<105, 110, 116, 40>> -> 134  \* int(
    [] nm = <<116, 105, 109, 101, 40>> -> 135  \* time(
    [] nm = <<101, 118, 101, 110, 116, 40>> -> 136  \* event(
    [] nm = <<105, 110, 107, 101, 121, 36, 40>> -> 137  \* inkey$(
    [] nm = <<97, 115, 99, 40>> -> 138  \* asc(
    [] nm = <<99, 104, 114, 36, 40>> -> 139  \* chr$(
    [] nm = <<112, 111, 105, 110, 116, 40>> -> 140  \* point(
    [] nm = <<108, 101, 110, 40>> -> 141  \* len(
    [] nm = <<97, 98, 115, 40>> -> 142  \* abs(
    [] nm = <<115, 103, 110, 40>> -> 143  \* sgn(
    [] nm = <<104, 105, 116, 40>> -> 144  \* hit(
    [] nm = <<115, 112, 111, 105, 110, 116, 40>> -> 145  \* spoint(
    [] nm = <<109, 105, 100, 36, 40>> -> 146  \* mid$(
    [] nm = <<108, 101, 102, 116, 36, 40>> -> 147  \* left$(
    [] nm = <<114, 105, 103, 104, 116, 36, 40>> -> 148  \* right$(
    [] nm = <<116, 114, 117, 101>> -> 149  \* true
    [] nm = <<102, 97, 108, 115, 101>> -> 150  \* false
    [] nm = <<105, 110, 115, 116, 114, 40>> -> 151  \* instr(
    [] nm = <<109, 111, 117, 115, 101, 40>> -> 152  \* mouse(
    [] nm = <<33, 33, 117, 110, 54>> -> 153  \* !!un6
    [] nm = <<33, 33, 117, 110, 55>> -> 154  \* !!un7
    [] nm = <<107, 101, 121, 40>> -> 155  \* key(
    [] nm = <<112, 101, 101, 107, 40>> -> 156  \* peek(
    [] nm = <<100, 101, 101, 107, 40>> -> 157  \* deek(
    [] nm = <<97, 108, 108, 111, 99, 40>> -> 158  \* alloc(
    [] nm = <<109, 97, 120, 40>> -> 159  \* max(
    [] nm = <<109, 105, 110, 40>> -> 160  \* min(
    [] nm = <<119, 104, 105, 108, 101>> -> 176  \* while
    [] nm = <<119, 101, 110, 100>> -> 177  \* wend
    [] nm = <<105, 102>> -> 178  \* if
    [] nm = <<101, 110, 100, 105, 102>> -> 179  \* endif
    [] nm = <<100, 111>> -> 180  \* do
    [] nm = <<108, 111, 111, 112>> -> 181  \* loop
    [] nm = <<114, 101, 112, 101, 97, 116>> -> 182  \* repeat
    [] nm = <<117, 110, 116, 105, 108>> -> 183  \* until
    [] nm = <<112, 114, 111, 99>> -> 184  \* proc
    [] nm = <<101, 110, 100, 112, 114, 111, 99>> -> 185  \* endproc
    [] nm = <<102, 111, 114>> -> 186  \* for
    [] nm = <<110, 101, 120, 116>> -> 187  \* next
    [] nm = <<99, 97, 115, 101>> -> 188  \* case
    [] nm = <<101, 110, 100, 99, 97, 115, 101>> -> 189  \* endcase
    [] nm = <<33, 33, 117, 110, 49>> -> 190  \* !!un1
    [] nm = <<116, 104, 101, 110>> -> 191  \* then
    [] nm = <<33, 33, 101, 110, 100>> -> 192  \* !!end
    [] nm = <<33, 33, 115, 104, 49>> -> 193  \* !!sh1
    [] nm = <<33, 33, 115, 104, 50>> -> 194  \* !!sh2
    [] nm = <<33, 33, 100, 101, 99>> -> 195  \* !!dec
    [] nm = <<116, 111>> -> 196  \* to
    [] nm = <<108, 101, 116>> -> 197  \* let
    [] nm = <<112, 114, 105, 110, 116>> -> 198  \* print
    [] nm = <<105, 110, 112, 117, 116>> -> 199  \* input
    [] nm = <<115, 121, 115>> -> 200  \* sys
    [] nm = <<101, 120, 105, 116>> -> 201  \* exit
    [] nm = <<44>> -> 202  \* ,
    [] nm = <<59>> -> 203  \* ;
    [] nm = <<58>> -> 204  \* :
    [] nm = <<39>> -> 205  \* '
    [] nm = <<41>> -> 206  \* )
    [] nm = <<114, 101, 97, 100>> -> 207  \* read
    [] nm = <<100, 97, 116, 97>> -> 208  \* data
    [] nm = <<101, 108, 115, 101>> -> 209  \* else
    [] nm = <<119, 104, 101, 110>> -> 210  \* when
    [] nm = <<100, 111, 119, 110, 116, 111>> -> 211  \* downto
    [] nm = <<112, 111, 107, 101>> -> 212  \* poke
    [] nm = <<100, 111, 107, 101>> -> 213  \* doke
    [] nm = <<108, 111, 99, 97, 108>> -> 214  \* local
    [] nm = <<99, 97, 108, 108>> -> 215  \* call
    [] nm = <<35>> -> 216  \* #
    [] nm = <<46>> -> 217  \* .
    [] nm = <<108, 105, 110, 101>> -> 218  \* line
    [] nm = <<114, 101, 99, 116>> -> 219  \* rect
    [] nm = <<109, 111, 118, 101>> -> 220  \* move
    [] nm = <<112, 108, 111, 116>> -> 221  \* plot
    [] nm = <<101, 108, 108, 105, 112, 115, 101>> -> 222  \* ellipse
    [] nm = <<116, 101, 120, 116>> -> 223  \* text
    [] nm = <<105, 109, 97, 103, 101>> -> 224  \* image
    [] nm = <<115, 112, 114, 105, 116, 101>> -> 225  \* sprite
    [] nm = <<102, 114, 111, 109>> -> 226  \* from
    [] nm = <<91>> -> 227  \* [
    [] nm = <<93>> -> 228  \* ]
    [] nm = <<64>> -> 229  \* @
    [] nm = <<116, 105, 108, 101, 100, 114, 97, 119>> -> 230  \* tiledraw
    [] nm = <<114, 101, 102>> -> 231  \* ref
    [] nm = <<99, 108, 101, 97, 114>> -> 384  \* clear
    [] nm = <<110, 101, 119>> -> 385  \* new
    [] nm = <<114, 117, 110>> -> 386  \* run
    [] nm = <<115, 116, 111, 112>> -> 387  \* stop
    [] nm = <<101, 110, 100>> -> 388  \* end
    [] nm = <<97, 115, 115, 101, 114, 116>> -> 389  \* assert
    [] nm = <<108, 105, 115, 116>> -> 390  \* list
    [] nm = <<115, 97, 118, 101>> -> 391  \* save
    [] nm = <<108, 111, 97, 100>> -> 392  \* load
    [] nm = <<99, 97, 116>> -> 393  \* cat
    [] nm = <<103, 111, 115, 117, 98>> -> 394  \* gosub
    [] nm = <<103, 111, 116, 111>> -> 395  \* goto
    [] nm = <<114, 101, 116, 117, 114, 110>> -> 396  \* return
    [] nm = <<114, 101, 115, 116, 111, 114, 101>> -> 397  \* restore
    [] nm = <<100, 105, 109>> -> 398  \* dim
    [] nm = <<102, 107, 101, 121>> -> 399  \* fkey
    [] nm = <<99, 108, 115>> -> 400  \* cls
    [] nm = <<105, 110, 107>> -> 401  \* ink
    [] nm = <<102, 114, 97, 109, 101>> -> 402  \* frame
    [] nm = <<115, 111, 108, 105, 100>> -> 403  \* solid
    [] nm = <<98, 121>> -> 404  \* by
    [] nm = <<119, 104, 111>> -> 405  \* who
    [] nm = <<112, 97, 108, 101, 116, 116, 101>> -> 406  \* palette
    [] nm = <<100, 114, 97, 119>> -> 407  \* draw
    [] nm = <<104, 105, 100, 101>> -> 408  \* hide
    [] nm = <<102, 108, 105, 112>> -> 409  \* flip
    [] nm = <<115, 111, 117, 110, 100>> -> 410  \* sound
    [] nm = <<115, 102, 120>> -> 411  \* sfx
    [] nm = <<97, 110, 99, 104, 111, 114>> -> 412  \* anchor
    [] nm = <<103, 108, 111, 97, 100>> -> 413  \* gload
    [] nm = <<100, 101, 102, 99, 104, 114>> -> 414  \* defchr
    [] nm = <<108, 101, 102, 116>> -> 415  \* left
    [] nm = <<114, 105, 103, 104, 116>> -> 416  \* right
    [] nm = <<102, 111, 114, 119, 97, 114, 100>> -> 417  \* forward
    [] nm = <<116, 117, 114, 116, 108, 101>> -> 418  \* turtle
    [] nm = <<99, 108, 111, 115, 101>> -> 419  \* close
    [] nm = <<116, 105, 108, 101, 109, 97, 112>> -> 420  \* tilemap
    [] nm = <<112, 101, 110, 117, 112>> -> 421  \* penup
    [] nm = <<112, 101, 110, 100, 111, 119, 110>> -> 422  \* pendown
    [] nm = <<102, 97, 115, 116>> -> 423  \* fast
    [] nm = <<104, 111, 109, 101>> -> 424  \* home
    [] nm = <<108, 111, 99, 97, 108, 101>> -> 425  \* locale
    [] nm = <<99, 117, 114, 115, 111, 114>> -> 426  \* cursor
    [] nm = <<114, 101, 110, 117, 109, 98, 101, 114>> -> 427  \* renumber
    [] nm = <<100, 101, 108, 101, 116, 101>> -> 428  \* delete
    [] nm = <<101, 100, 105, 116>> -> 429  \* edit
    [] nm = <<109, 111, 110>> -> 430  \* mon
    [] nm = <<111, 108, 100>> -> 431  \* old
    [] nm = <<111, 110>> -> 432  \* on
    [] nm = <<101, 114, 114, 111, 114>> -> 433  \* error
    [] nm = <<112, 105, 110>> -> 434  \* pin
    [] nm = <<111, 117, 116, 112, 117, 116>> -> 435  \* output
    [] nm = <<119, 97, 105, 116>> -> 436  \* wait
    [] nm = <<105, 119, 114, 105, 116, 101>> -> 437  \* iwrite
    [] nm = <<97, 110, 97, 108, 111, 103>> -> 438  \* analog
    [] nm = <<105, 115, 101, 110, 100>> -> 439  \* isend
    [] nm = <<115, 115, 101, 110, 100>> -> 440  \* ssend
    [] nm = <<105, 114, 101, 99, 101, 105, 118, 101>> -> 441  \* ireceive
    [] nm = <<115, 114, 101, 99, 101, 105, 118, 101>> -> 442  \* sreceive
    [] nm = <<105, 116, 114, 97, 110, 115, 109, 105, 116>> -> 443  \* itransmit
    [] nm = <<115, 116, 114, 97, 110, 115, 109, 105, 116>> -> 444  \* stransmit
    [] nm = <<111, 112, 101, 110>> -> 445  \* open
    [] nm = <<108, 105, 98, 114, 97, 114, 121>> -> 446  \* library
    [] nm = <<117, 115, 101, 110, 100>> -> 447  \* usend
    [] nm = <<117, 114, 101, 99, 101, 105, 118, 101>> -> 448  \* ureceive
    [] nm = <<117, 116, 114, 97, 110, 115, 109, 105, 116>> -> 449  \* utransmit
    [] nm = <<117, 99, 111, 110, 102, 105, 103>> -> 450  \* uconfig
    [] nm = <<109, 111, 115>> -> 451  \* mos
    [] nm = <<109, 111, 117, 115, 101>> -> 452  \* mouse
    [] nm = <<115, 104, 111, 119>> -> 453  \* show
    [] nm = <<110, 111, 105, 115, 101>> -> 454  \* noise
    [] nm = <<97, 100, 99>> -> 640  \* adc
    [] nm = <<97, 110, 100>> -> 641  \* and
    [] nm = <<97, 115, 108>> -> 642  \* asl
    [] nm = <<98, 99, 99>> -> 643  \* bcc
    [] nm = <<98, 99, 115>> -> 644  \* bcs
    [] nm = <<98, 101, 113>> -> 645  \* beq
    [] nm = <<98, 105, 116>> -> 646  \* bit
    [] nm = <<98, 109, 105>> -> 647  \* bmi
    [] nm = <<98, 110, 101>> -> 648  \* bne
    [] nm = <<98, 112, 108>> -> 649  \* bpl
    [] nm = <<98, 114, 97>> -> 650  \* bra
    [] nm = <<98, 114, 107>> -> 651  \* brk
    [] nm = <<98, 118, 99>> -> 652  \* bvc
    [] nm = <<98, 118, 115>> -> 653  \* bvs
    [] nm = <<99, 108, 99>> -> 654  \* clc
    [] nm = <<99, 108, 100>> -> 655  \* cld
    [] nm = <<99, 108, 105>> -> 656  \* cli
    [] nm = <<99, 108, 118>> -> 657  \* clv
    [] nm = <<99, 109, 112>> -> 658  \* cmp
    [] nm = <<99, 112, 120>> -> 659  \* cpx
    [] nm = <<99, 112, 121>> -> 660  \* cpy
    [] nm = <<100, 101, 99>> -> 661  \* dec
    [] nm = <<100, 101, 120>> -> 662  \* dex
    [] nm = <<100, 101, 121>> -> 663  \* dey
    [] nm = <<101, 111, 114>> -> 664  \* eor
    [] nm = <<105, 110, 99>> -> 665  \* inc
    [] nm = <<105, 110, 120>> -> 666  \* inx
    [] nm = <<105, 110, 121>> -> 667  \* iny
    [] nm = <<106, 109, 112>> -> 668  \* jmp
    [] nm = <<106, 115, 114>> -> 669  \* jsr
    [] nm = <<108, 100, 97>> -> 670  \* lda
    [] nm = <<108, 100, 120>> -> 671  \* ldx
    [] nm = <<108, 100, 121>> -> 672  \* ldy
    [] nm = <<108, 115, 114>> -> 673  \* lsr
    [] nm = <<110, 111, 112>> -> 674  \* nop
    [] nm = <<111, 114, 97>> -> 675  \* ora
    [] nm = <<112, 104, 97>> -> 676  \* pha
    [] nm = <<112, 104, 112>> -> 677  \* php
    [] nm = <<112, 104, 120>> -> 678  \* phx
    [] nm = <<112, 104, 121>> -> 679  \* phy
    [] nm = <<112, 108, 97>> -> 680  \* pla
    [] nm = <<112, 108, 112>> -> 681  \* plp
    [] nm = <<112, 108, 120>> -> 682  \* plx
    [] nm = <<112, 108, 121>> -> 683  \* ply
    [] nm = <<114, 111, 108>> -> 684  \* rol
    [] nm = <<114, 111, 114>> -> 685  \* ror
    [] nm = <<114, 116, 105>> -> 686  \* rti
    [] nm = <<114, 116, 115>> -> 687  \* rts
    [] nm = <<115, 98, 99>> -> 688  \* sbc
    [] nm = <<115, 101, 99>> -> 689  \* sec
    [] nm = <<115, 101, 100>> -> 690  \* sed
    [] nm = <<115, 101, 105>> -> 691  \* sei
    [] nm = <<115, 116, 97>> -> 692  \* sta
    [] nm = <<115, 116, 120>> -> 693  \* stx
    [] nm = <<115, 116, 121>> -> 694  \* sty
    [] nm = <<115, 116, 122>> -> 695  \* stz
    [] nm = <<116, 97, 120>> -> 696  \* tax
    [] nm = <<116, 97, 121>> -> 697  \* tay
    [] nm = <<116, 114, 98>> -> 698  \* trb
    [] nm = <<116, 115, 98>> -> 699  \* tsb
    [] nm = <<116, 115, 120>> -> 700  \* tsx
    [] nm = <<116, 120, 97>> -> 701  \* txa
    [] nm = <<116, 120, 115>> -> 702  \* txs
    [] nm = <<116, 121, 97>> -> 703  \* tya
    [] nm = <<97, 116, 97, 110, 50, 40>> -> 720  \* atan2(
    [] nm = <<101, 111, 102, 40>> -> 721  \* eof(
    [] nm = <<33, 33, 117, 117, 50>> -> 722  \* !!uu2
    [] nm = <<33, 33, 117, 117, 51>> -> 723  \* !!uu3
    [] nm = <<33, 33, 117, 117, 52>> -> 724  \* !!uu4
    [] nm = <<33, 33, 117, 117, 53>> -> 725  \* !!uu5
    [] nm = <<33, 33, 117, 117, 54>> -> 726  \* !!uu6
    [] nm = <<33, 33, 117, 117, 55>> -> 727  \* !!uu7
    [] nm = <<33, 33, 117, 117, 56>> -> 728  \* !!uu8
    [] nm = <<33, 33, 117, 117, 57>> -> 729  \* !!uu9
    [] nm = <<33, 33, 117, 117, 49, 48>> -> 730  \* !!uu10
    [] nm = <<33, 33, 117, 117, 49, 49>> -> 731  \* !!uu11
    [] nm = <<33, 33, 117, 117, 49, 50>> -> 732  \* !!uu12
    [] nm = <<33, 33, 117, 117, 49, 51>> -> 733  \* !!uu13
    [] nm = <<33, 33, 117, 117, 49, 52>> -> 734  \* !!uu14
    [] nm = <<33, 33, 117, 117, 49, 53>> -> 735  \* !!uu15
    [] nm = <<115, 105, 110, 40>> -> 736  \* sin(
    [] nm = <<99, 111, 115, 40>> -> 737  \* cos(
    [] nm = <<116, 97, 110, 40>> -> 738  \* tan(
    [] nm = <<97, 116, 97, 110, 40>> -> 739  \* atan(
    [] nm = <<108, 111, 103, 40>> -> 740  \* log(
    [] nm = <<101, 120, 112, 40>> -> 741  \* exp(
    [] nm = <<118, 97, 108, 40>> -> 742  \* val(
    [] nm = <<115, 116, 114, 36, 40>> -> 743  \* str$(
    [] nm = <<105, 115, 118, 97, 108, 40>> -> 744  \* isval(
    [] nm = <<115, 113, 114, 40>> -> 745  \* sqr(
    [] nm = <<112, 97, 103, 101>> -> 746  \* page
    [] nm = <<115, 112, 114, 105, 116, 101, 120, 40>> -> 747  \* spritex(
    [] nm = <<115, 112, 114, 105, 116, 101, 121, 40>> -> 748  \* spritey(
    [] nm = <<110, 111, 116, 101, 115, 40>> -> 749  \* notes(
    [] nm = <<104, 105, 109, 101, 109>> -> 750  \* himem
    [] nm = <<118, 98, 108, 97, 110, 107, 115, 40>> -> 751  \* vblanks(
    [] nm = <<101, 114, 114>> -> 752  \* err
    [] nm = <<101, 114, 108>> -> 753  \* erl
    [] nm = <<112, 105, 110, 40>> -> 754  \* pin(
    [] nm = <<105, 114, 101, 97, 100, 40>> -> 755  \* iread(
    [] nm = <<97, 110, 97, 108, 111, 103, 40>> -> 756  \* analog(
    [] nm = <<106, 111, 121, 99, 111, 117, 110, 116, 40>> -> 757  \* joycount(
    [] nm = <<117, 112, 112, 101, 114, 36, 40>> -> 758  \* upper$(
    [] nm = <<105, 100, 101, 118, 105, 99, 101, 40>> -> 759  \* idevice(
    [] nm = <<115, 112, 99, 40>> -> 760  \* spc(
    [] nm = <<116, 97, 98, 40>> -> 761  \* tab(
    [] nm = <<117, 104, 97, 115, 100, 97, 116, 97, 40>> -> 762  \* uhasdata(
    [] nm = <<109, 111, 115, 40>> -> 763  \* mos(
    [] nm = <<104, 97, 118, 101, 109, 111, 117, 115, 101, 40>> -> 764  \* havemouse(
    [] nm = <<108, 111, 119, 101, 114, 36, 40>> -> 765  \* lower$(
    [] nm = <<112, 111, 119, 40>> -> 766  \* pow(
    [] nm = <<101, 120, 105, 115, 116, 115, 40>> -> 767  \* exists(
    [] nm = <<>> -> 719
    [] OTHER -> None

\* TokenSet.getByName(name).getID(), None when getByName gives None
getByName(name) == TokenIdOf(Lower(Strip(name)))


\* Tokeniser.getTokenID of the control tokens
ID_END == getByName(<<33, 33, 101, 110, 100>>)

ID_SH1 == getByName(<<33, 33, 115, 104, 49>>)

ID_SH2 == getByName(<<33, 33, 115, 104, 50>>)

ID_DEC == getByName(<<33, 33, 100, 101, 99>>)

ID_STR == getByName(<<33, 33, 115, 116, 114>>)

ID_DOLLAR == getByName(<<36>>)

ID_QUOTE == getByName(<<39>>)

-----------------------------------------------------------------------------
(* Number codec *)

\* least-significant digit first: a wrong digit order
RECURSIVE renderConstantLSB(_)
renderConstantLSB(n) ==
  IF n >= 64 THEN <<64 + (n % 64)>> \o renderConstantLSB(n \div 64)
             ELSE <<64 + (n % 64)>>

\* Tokeniser.renderConstant: n >> 6 first, then 0x40 | (n & 0x3F)
RECURSIVE renderConstant(_)
renderConstant(n) ==
  IF n >= 64 THEN Append(renderConstant(n \div 64), 64 + (n % 64))
             ELSE <<64 + (n % 64)>>

\* the lister's loop over digit bytes, from Python index p with v accumulated:
\* stops at the first byte outside [0x40, 0x80); reading past the end of bin
\* is an IndexError
RECURSIVE IntLoop(_, _, _)
IntLoop(b, p, v) ==
  IF ~InRange(b, p) THEN [err |-> TRUE, v |-> v, p |-> p]
  ELSE IF At(b, p) >= 64 /\ At(b, p) < 128
         THEN IntLoop(b, p + 1, (v * 64) + (At(b, p) - 64))
         ELSE [err |-> FALSE, v |-> v, p |-> p]

\* an encoder that appends the sentinel only to an odd count of digits
encodeFractionOddPad(digitChars) ==
  LET ds     == [i \in 1..Len(digitChars) |-> digitChars[i] - 48]
      digits == IF Len(ds) % 2 = 0 THEN ds ELSE Append(ds, 15)
  IN  <<ID_DEC, Len(digits) \div 2>>
        \o [i \in 1..(Len(digits) \div 2) |-> digits[2 * i - 1] * 16 + digits[2 * i]]

\* Tokeniser.tokeniseOne, fraction branch: the bytes appended for ".digits"
encodeFraction(digitChars) ==
  LET ds     == Append([i \in 1..Len(digitChars) |-> digitChars[i] - 48], 15)
      digits == IF Len(ds) % 2 = 0 THEN ds ELSE Append(ds, 15)
  IN  <<ID_DEC, Len(digits) \div 2>>
        \o [i \in 1..(Len(digits) \div 2) |-> digits[2 * i - 1] * 16 + digits[2 * i]]

\* a decoder that renders a sentinel nibble as a digit
decodeKeepSentinel(d) == DecStr(d \div 16) \o DecStr(d % 16)

\* ProgramLister.decode: a nibble of 15 renders nothing
decode(d) ==
  (IF (d \div 16) = 15 THEN <<>> ELSE DecStr(d \div 16))
    \o (IF (d % 16) = 15 THEN <<>> ELSE DecStr(d % 16))

-----------------------------------------------------------------------------
(* ProgramLister *)

\* ProgramLister.type: ' ' stays, identifier-class is 'I', the rest 'N'
type(c) ==
  LET u == UpperChar(c)
  IN  IF u = 32 THEN 32
      ELSE IF IsDigit(u) \/ (u >= 65 /\ u <= 90) \/ u = 95 THEN 73 ELSE 78

\* an append that puts the space only between two identifier-class characters
appendIdentifierOnly(t, s) ==
  IF t = <<>> THEN [err |-> FALSE, text |-> s]
  ELSE IF s = <<>> THEN [err |-> TRUE, text |-> t]
  ELSE IF type(t[Len(t)]) = 73 /\ type(s[1]) = 73
         THEN [err |-> FALSE, text |-> t \o <<32>> \o s]
         ELSE [err |-> FALSE, text |-> t \o s]

\* ProgramLister.append; s[0] of an empty s is an IndexError
append(t, s) ==
  IF t = <<>> THEN [err |-> FALSE, text |-> s]
  ELSE IF s = <<>> THEN [err |-> TRUE, text |-> t]
  ELSE IF type(t[Len(t)]) = type(s[1])
         THEN [err |-> FALSE, text |-> t \o <<32>> \o s]
         ELSE [err |-> FALSE, text |-> t \o s]

\* the identifier branch's loop: name bytes from va up to the first one with
\* bit 0x80, which ends the name; running off the end of bin is an IndexError
NameLoop(b, va) ==
  LET ends == {i \in va..(Len(b) - 1) : At(b, i) >= 128}
      last == CHOOSE i \in ends : \A j \in ends : i <= j
  IN  IF va < 0 \/ ends = {} THEN [err |-> TRUE, name |-> <<>>]
      ELSE [err |-> FALSE,
            name |-> [i \in 1..(last - va + 1) |->
                        IF i = last - va + 1 THEN At(b, last) % 128 ELSE At(b, va + i - 1)]]

RECURSIVE JoinDecode(_)
JoinDecode(bytes) ==
  IF bytes = <<>> THEN <<>> ELSE decode(Head(bytes)) \o JoinDecode(Tail(bytes))

ListFail(p, t) == [err |-> TRUE, p |-> p, text |-> t]

ListStep(p, a) == [err |-> a.err, p |-> p, text |-> a.text]

\* ProgramLister.listOneElement: renders the element at p onto text t
listOneElement(b, p, t) ==
  LET n == At(b, p)
  IN  IF n >= 0 /\ n < 32 THEN
        IF ~InRange(b, p + 1) THEN ListFail(p, t)
        ELSE LET r == NameLoop(b, (n * 256) + At(b, p + 1) + 5)
             IN  IF r.err THEN ListFail(p, t)
                 ELSE ListStep(p + 2, append(t, Lower(r.name)))
      ELSE IF n = ID_STR THEN
        IF ~InRange(b, p + 1) \/ ~InRange(b, p + 1 + At(b, p + 1)) THEN ListFail(p, t)
        ELSE ListStep(p + At(b, p + 1) + 2,
                      append(t, <<34>> \o SubSeq(b, p + 3, p + 2 + At(b, p + 1)) \o <<34>>))
      ELSE IF n = ID_DEC THEN
        IF ~InRange(b, p + 1) \/ ~InRange(b, p + 1 + At(b, p + 1)) THEN ListFail(p, t)
        ELSE ListStep(p + At(b, p + 1) + 2,
                      append(t, <<46>> \o JoinDecode(SubSeq(b, p + 3, p + 2 + At(b, p + 1)))))
      ELSE IF n >= 64 /\ n < 128 THEN
        LET r == IntLoop(b, p, 0)
        IN  IF r.err THEN ListFail(p, t) ELSE ListStep(r.p, append(t, DecStr(r.v)))
      ELSE IF n = ID_DOLLAR THEN
        LET a == append(t, <<32, 36>>)
            r == IntLoop(b, p + 1, 0)
        IN  IF r.err THEN ListFail(p, a.text)
            ELSE ListStep(r.p, append(a.text, HexStr(r.v)))
      ELSE IF n >= 128 \/ (n >= 32 /\ n < 64) THEN
        LET sh1 == n = ID_SH1
            n1  == IF sh1 /\ InRange(b, p + 1) THEN At(b, p + 1) + 256 ELSE n
            p1  == IF sh1 THEN p + 2 ELSE p + 1
            sh2 == n1 = ID_SH2
            n2  == IF sh2 /\ InRange(b, p1) THEN At(b, p1) + 512 ELSE n1
            p2  == IF sh2 THEN p1 + 1 ELSE p1
        IN  IF (sh1 /\ ~InRange(b, p + 1)) \/ (sh2 /\ ~InRange(b, p1)) THEN ListFail(p, t)
            ELSE IF ~HasID(n2) THEN ListFail(p2, t)
            ELSE ListStep(p2, append(t, getByID(n2)))
      ELSE [err |-> FALSE, p |-> p + 1,
            text |-> t \o <<91>> \o (IF n < 16 THEN <<48>> ELSE <<>>) \o HexStr(n) \o <<93>>]

\* the loop of ProgramLister.listLine: elements until the !!END byte
RECURSIVE ListElements(_, _, _)
ListElements(b, p, t) ==
  IF ~InRange(b, p) THEN ListFail(p, t)
  ELSE IF At(b, p) = ID_END THEN [err |-> FALSE, p |-> p, text |-> t]
  ELSE LET r == listOneElement(b, p, t)
       IN  IF r.err THEN r ELSE ListElements(b, r.p, r.text)

\* ProgramLister.listLine: the text of the line record at lineStart
listLine(b, lineStart, showLineNumbers) ==
  IF showLineNumbers /\ ~InRange(b, lineStart + 2) THEN ListFail(lineStart, <<>>)
  ELSE ListElements(b, lineStart + 3,
         IF showLineNumbers
           THEN Append(DecStr(At(b, lineStart + 1) + At(b, lineStart + 2) * 256), 32)
           ELSE <<>>)

-----------------------------------------------------------------------------
(* IdentifierStore *)

NoIdentifiers == [x \in {} |-> 0]

\* IdentifierStore.__init__: one page
StoreInit == [store |-> <<1>>, identifiers |-> NoIdentifiers]

\* IdentifierStore.get
storeGet(ids, name) == IF Upper(name) \in DOMAIN ids THEN ids[Upper(name)] ELSE None

\* bit 0x80 of an address
Bit80(a) == (a \div 128) % 2

\* a page test that holds whenever the bit differs
PageCrossedEitherWay(bAddress, aAddress) == Bit80(bAddress) # Bit80(aAddress)

\* IdentifierStore.add, the page test: crossed the middle of the page
PageCrossed(bAddress, aAddress) == Bit80(bAddress) = 0 /\ Bit80(aAddress) # 0

\* a record whose pointer is the record's own offset
IdentifierPointerNoBias(bAddress) == bAddress

\* IdentifierStore.add: the pointer kept for the name, offset 1 in the record
IdentifierPointer(bAddress) == bAddress + 1

\* IdentifierStore.add, the control byte
ControlByte(name) ==
  LET isString == EndsWith(name, <<36>>) \/ EndsWith(name, <<36, 40>>)
      isArray  == EndsWith(name, <<40>>)
      ctrl     == IF isString THEN 128 ELSE 0
  IN  IF isArray THEN ctrl + 16 ELSE ctrl

\* IdentifierStore.add (the caller has checked the assertion AddAllowed)
storeAdd(st, nameArg) ==
  LET name     == Upper(nameArg)
      bAddress == Len(st.store)
      b        == [i \in 1..Len(name) |->
                     IF i = Len(name) /\ Bit80(name[i]) = 0 THEN name[i] + 128 ELSE name[i]]
      grown    == st.store \o <<Len(name) + 6, 0, 0, 0, 0, ControlByte(name)>> \o b
      aAddress == Len(grown)
  IN  [store |-> IF PageCrossed(bAddress, aAddress)
                   THEN [grown EXCEPT ![1] = @ + 1] ELSE grown,
       identifiers |-> (name :> IdentifierPointer(bAddress)) @@ st.identifiers]

\* the assertion of IdentifierStore.add
AddAllowed(st, name) == Upper(name) \notin DOMAIN st.identifiers

\* IdentifierStore.render: a copy padded with zeros to store[0] * 256 bytes
storeRender(s) ==
  LET reqLength == s[1] * 256
  IN  IF Len(s) < reqLength THEN s \o [i \in 1..(reqLength - Len(s)) |-> 0] ELSE s

-----------------------------------------------------------------------------
(* Tokeniser *)

NotQuote(c) == c # 34

\* s.replace('"', '')
DropQuotes(s) == SelectSeq(s, NotQuote)

TokFail(k) == [k EXCEPT !.err = TRUE]

TokEmit(k, bytes, rest) == [k EXCEPT !.code = @ \o bytes, !.s = rest]

\* the match of ^([A-Za-z0-9_.]+\$?\(?)
WordLen(s) ==
  LET k  == SpanWord(s)
      k1 == IF Len(s) > k /\ s[k + 1] = 36 THEN k + 1 ELSE k
  IN  IF Len(s) > k1 /\ s[k1 + 1] = 40 THEN k1 + 1 ELSE k1

\* Tokeniser.tokeniseOne, identifier or token: id is getByName of the word
WordBranch(k, word, id, rest) ==
  IF id # None THEN
    IF id >= 256
      THEN TokEmit(k, <<(IF id \div 256 = 1 THEN ID_SH1 ELSE ID_SH2), id % 256>>, rest)
      ELSE TokEmit(k, <<id % 256>>, rest)
  ELSE
    LET st  == [store |-> k.store, identifiers |-> k.identifiers]
        st1 == IF storeGet(k.identifiers, word) = None THEN storeAdd(st, word) ELSE st
        ptr == storeGet(st1.identifiers, word)
    IN  [k EXCEPT !.code = @ \o <<ptr \div 256, ptr % 256>>, !.s = rest,
                  !.store = st1.store, !.identifiers = st1.identifiers]

\* Tokeniser.tokeniseOne, punctuation: id2 and id1 are getByName of the first
\* two characters and of the first one
PunctuationBranch(k, id2, id1) ==
  IF Len(k.s) >= 2 /\ id2 # None THEN TokEmit(k, <<id2>>, Drop(k.s, 2))
  ELSE IF id1 # None THEN TokEmit(k, <<id1>>, Tail(k.s))
  ELSE TokFail(k)

\* Tokeniser.tokeniseOne on k.s (not empty); k carries the code emitted so far
\* and the identifier store; a failed match or assertion sets k.err
tokeniseOne(k) ==
  LET s == k.s
  IN  IF IsDigit(s[1]) THEN
        LET n    == SpanDigits(s)
            body == renderConstant(ParseInt(Take(s, n)))
            s1   == LStrip(Drop(s, n))
            nd   == IF s1 # <<>> /\ s1[1] = 46 THEN SpanDigits(Tail(s1)) ELSE 0
        IN  IF nd > 0
              THEN TokEmit(k, body \o encodeFraction(SubSeq(s1, 2, nd + 1)),
                           LStrip(Drop(s1, nd + 1)))
              ELSE TokEmit(k, body, s1)
      ELSE IF s[1] = 36 THEN
        LET n == SpanHex(Tail(s))
        IN  IF n = 0 THEN TokFail(k)
            ELSE TokEmit(k, <<ID_DOLLAR>> \o renderConstant(ParseHex(SubSeq(s, 2, n + 1))),
                         LStrip(Drop(s, n + 1)))
      ELSE IF s[1] = 34 THEN
        LET n == Find(Tail(s), 34)
        IN  IF n < 0 THEN TokFail(k)
            ELSE TokEmit(k, <<ID_STR, n>> \o SubSeq(s, 2, n + 1), LStrip(Drop(s, n + 2)))
      ELSE IF s[1] = 39 THEN
        LET c == Strip(Tail(s))
        IN  IF c # <<>>
              THEN TokEmit(k, <<ID_QUOTE, ID_STR, Len(DropQuotes(c))>> \o DropQuotes(c), <<>>)
              ELSE TokEmit(k, <<ID_QUOTE>>, <<>>)
      ELSE IF IsLetter(s[1]) THEN
        WordBranch(k, Take(s, WordLen(s)), getByName(Take(s, WordLen(s))),
                   LStrip(Drop(s, WordLen(s))))
      ELSE PunctuationBranch(k, getByName(Take(s, 2)), getByName(<<s[1]>>))

\* Tokeniser.tokenise: s = self.tokeniseOne(s).strip()
StripRest(r) == [r EXCEPT !.s = Strip(r.s)]

\* the loop of Tokeniser.tokenise: until s is empty or starts with //
RECURSIVE tokeniseLoop(_)
tokeniseLoop(k) ==
  IF k.err \/ k.s = <<>> \/ StartsWith(k.s, <<47, 47>>) THEN k
  ELSE tokeniseLoop(StripRest(tokeniseOne(k)))

\* Tokeniser.tokenise(s) with the identifier store st
tokenise(s, st) ==
  tokeniseLoop([err |-> FALSE, s |-> Strip(s), code |-> <<>>,
                store |-> st.store, identifiers |-> st.identifiers])

-----------------------------------------------------------------------------
(* Program *)

\* Program.__init__: the identifier store with A, O, P, X and Y added
ProgramStore ==
  storeAdd(storeAdd(storeAdd(storeAdd(storeAdd(StoreInit,
    <<65>>), <<79>>), <<80>>), <<88>>), <<89>>)

\* Program.__init__: lineStep
lineStep == 10

\* Program.__init__: nextLine
FirstLine == 100

\* Program.command, #nolibrary: nextLine
NoLibraryLine == 1000

\* Program.processIdentifiers: the pieces re.split gives (identifiers and the
\* text between them), each replaced when it is a defined name; the empty
\* pieces re.split also gives are left out: no input line defines the empty name
RECURSIVE processIdentifiers(_, _)
processIdentifiers(s, defs) ==
  IF s = <<>> THEN <<>>
  ELSE LET n     == IF IsLetter(Head(s)) THEN 1 + SpanWord(Tail(s)) ELSE Span(s, "nonletter")
           piece == Take(s, n)
       IN  (IF piece \in DOMAIN defs THEN defs[piece] ELSE piece)
             \o processIdentifiers(Drop(s, n), defs)

\* the words "define", "library", "nolibrary"
WordDefine == <<100, 101, 102, 105, 110, 101>>

WordLibrary == <<108, 105, 98, 114, 97, 114, 121>>

WordNoLibrary == <<110, 111>> \o WordLibrary

\* Program.command, "define": the name is c[:n], the text c[n+1:].strip(),
\* with n = c.find(" ") (-1 when there is no space)
DefineOf(c0) ==
  LET c == Strip(Drop(c0, 6))
      n == Find(c, 32)
  IN  [name |-> IF n >= 0 THEN Take(c, n) ELSE Take(c, IF Len(c) > 0 THEN Len(c) - 1 ELSE 0),
       body |-> Strip(Drop(c, n + 1))]

\* library mode ignored: the record carries the running number
LineNoIgnoringLibrary(lib, number) == number

\* Program.addLine: lineNo
LineNo(lib, number) == IF lib THEN 0 ELSE number

\* Program.addLine: the record built for a line; its first element is its length
LineRecord(lineNo, tokens) ==
  LET line == <<0, lineNo % 256, lineNo \div 256>> \o tokens \o <<ID_END>>
  IN  [line EXCEPT ![1] = Len(line)]

\* Program.makelibrary from offset p: zero the number of every record
RECURSIVE makelibraryFrom(_, _)
makelibraryFrom(c, p) ==
  IF p = Len(c) THEN c
  ELSE makelibraryFrom([c EXCEPT ![p + 2] = 0, ![p + 3] = 0], p + At(c, p))

makelibrary(c) == makelibraryFrom(c, 0)

\* bytes(list): every element must be in range(256), else ValueError
IsBytes(l) == {i \in 1..Len(l) : l[i] < 0 \/ l[i] >= 256} = {}

\* Program.render: the list handed to bytes()
Image(st, c) == storeRender(st) \o c \o <<0>>

\* the output file: whether it exists, and its content
Absent == [exists |-> FALSE, data |-> <<>>]

FileWith(data) == [exists |-> TRUE, data |-> data]

-----------------------------------------------------------------------------
(* Program.addFile, one line of the file *)

\* Program.addFile: the optional number and the text handed to addLine
NumberSplit(s) ==
  IF s # <<>> /\ IsDigit(s[1])
    THEN [number |-> ParseInt(Take(s, SpanDigits(s))), text |-> Drop(s, SpanDigits(s))]
    ELSE [number |-> None, text |-> s]

\* the counter is left at the current number
addRecordNoStep(q, current, k) ==
  IF k.err THEN [q EXCEPT !.err = TRUE]
  ELSE [q EXCEPT !.nextLine = current,
                 !.code = @ \o LineRecord(LineNo(q.libraryMode, current), k.code),
                 !.store = k.store,
                 !.identifiers = k.identifiers]

\* Program.addLine once the line is tokenised: k is the tokeniser's result
addRecord(q, current, k) ==
  IF k.err THEN [q EXCEPT !.err = TRUE]
  ELSE [q EXCEPT !.nextLine = current + lineStep,
                 !.code = @ \o LineRecord(LineNo(q.libraryMode, current), k.code),
                 !.store = k.store,
                 !.identifiers = k.identifiers]

\* Program.addLine on program state q; a tokeniser failure sets err
addLine(q, number, lineText) ==
  IF Strip(lineText) = <<>> THEN q
  ELSE addRecord(q, IF number # None THEN number ELSE q.nextLine,
                 tokenise(lineText, [store |-> q.store, identifiers |-> q.identifiers]))

\* Program.command on program state q; an unknown command sets err
command(q, c) ==
  IF StartsWith(c, WordDefine)
    THEN [q EXCEPT !.defines = (DefineOf(c).name :> DefineOf(c).body) @@ @]
  ELSE IF c = WordLibrary THEN [q EXCEPT !.libraryMode = TRUE]
  ELSE IF c = WordNoLibrary THEN [q EXCEPT !.libraryMode = FALSE, !.nextLine = NoLibraryLine]
  ELSE [q EXCEPT !.err = TRUE]

\* Program.addFile, a line that is no #command, after processIdentifiers
addSource(q, t) ==
  IF t = <<>> THEN q ELSE addLine(q, NumberSplit(t).number, NumberSplit(t).text)

\* the body of the loop of Program.addFile for one line
addFileLine(q, line) ==
  IF StartsWith(Strip(line), <<35>>) THEN command(q, Tail(Strip(line)))
  ELSE addSource(q, processIdentifiers(Strip(line), q.defines))

-----------------------------------------------------------------------------
(* Inputs *)

\* most lines a modelled input file holds
MaxLines == 2

\* length of the identifier of LineLongName
LongNameLen == 215

\* length of the string literal of LineLongString
LongStringLen == 252

\* PRINT "HI"
LinePrint == <<80, 82, 73, 78, 84, 32, 34, 72, 73, 34>>

\* 10 A=5
LineAssign == <<49, 48, 32, 65, 61, 53>>

\* 20 b$(1)=$ff+1.25
LineMixed == <<50, 48, 32, 98, 36, 40, 49, 41, 61, 36, 102, 102, 43, 49, 46, 50, 53>>

\* #library
LineLibrary == <<35, 108, 105, 98, 114, 97, 114, 121>>

\* #nolibrary
LineNoLibrary == <<35, 110, 111, 108, 105, 98, 114, 97, 114, 121>>

\* (two spaces)
LineBlank == <<32, 32>>

\* // note
LineSlashes == <<47, 47, 32, 110, 111, 116, 101>>

\* ' rem "x"
LineRem == <<39, 32, 114, 101, 109, 32, 34, 120, 34>>

\* if (a>=1) then goto 100
LineIfParen == <<105, 102, 32, 40, 97, 62, 61, 49, 41, 32, 116, 104, 101, 110, 32, 103, 111, 116, 111, 32, 49, 48, 48>>

\* 70000 y
LineBigNumber == <<55, 48, 48, 48, 48, 32, 121>>

\* #define K 7
LineDefine == <<35, 100, 101, 102, 105, 110, 101, 32, 75, 32, 55>>

\* a=K
LineUseDefine == <<97, 61, 75>>

\* #bogus
LineBadCommand == <<35, 98, 111, 103, 117, 115>>

\* "abc
LineOpenString == <<34, 97, 98, 99>>

\* data 1 2
LineTwoInts == <<100, 97, 116, 97, 32, 49, 32, 50>>

\* 30
LineNumberOnly == <<51, 48>>

\* an identifier of LongNameLen characters: z followed by digits 0
LineLongName == [i \in 1..LongNameLen |-> IF i = 1 THEN 122 ELSE 48]

\* a quoted string of LongStringLen letters x
LineLongString == <<34>> \o [i \in 1..LongStringLen |-> 120] \o <<34>>

Lines ==
  { LinePrint, LineAssign, LineMixed, LineLibrary, LineNoLibrary, LineBlank,
    LineSlashes, LineRem, LineIfParen, LineBigNumber, LineDefine, LineUseDefine,
    LineBadCommand, LineOpenString, LineTwoInts, LineNumberOnly, LineLongName,
    LineLongString }

\* content of an output file that exists before the run
OldContent == <<111, 108, 100>>

-----------------------------------------------------------------------------
(* The make command followed by the list command on its output *)

\* str(bool) as __main__ applies it to the parsed options
PyStr(b) == IF b THEN "True" ELSE "False"

\* truth value of a Python string
Truthy(s) == s # ""

\* the state of the Program object as a record
Prog ==
  [err |-> FALSE, nextLine |-> nextLine, libraryMode |-> libraryMode, code |-> code,
   store |-> store, identifiers |-> identifiers, defines |-> defines]

SetProg(q) ==
  /\ nextLine' = q.nextLine
  /\ libraryMode' = q.libraryMode
  /\ code' = q.code
  /\ store' = q.store
  /\ identifiers' = q.identifiers
  /\ defines' = q.defines

codecVars == << arg, tcode, val >>

progVars == << nextLine, libraryMode, code, store, identifiers, defines >>

listVars == << bin, lp, text, listing >>

\* Program.__init__
ProgramInit ==
  /\ nextLine = FirstLine
  /\ libraryMode = FALSE
  /\ code = <<>>
  /\ store = ProgramStore.store
  /\ identifiers = ProgramStore.identifiers
  /\ defines = NoIdentifiers

CodecIdle == arg = 0 /\ tcode = <<>> /\ val = 0

ListIdle == bin = <<>> /\ lp = 0 /\ text = <<>> /\ listing = <<>>

Init ==
  /\ pc = "start"
  /\ optLibrary \in BOOLEAN
  /\ file = <<>>
  /\ outFile \in {Absent, FileWith(OldContent)}
  /\ ProgramInit
  /\ CodecIdle
  /\ ListIdle

\* __main__, make: "if makelibrary: tokenize_program.makelibrary()", before
\* any line is added; makelibrary is the str() of the option
MakeLibraryOption ==
  /\ pc = "start"
  /\ pc' = "addfile"
  /\ code' = IF Truthy(PyStr(optLibrary)) THEN makelibrary(code) ELSE code
  /\ UNCHANGED << optLibrary, file, outFile, nextLine, libraryMode, store,
                  identifiers, defines, codecVars, listVars >>

\* Program.addFile, one line, with q the result of addFileLine: either the line
\* is handled, or it raises (bad #command, failed match or assertion in the
\* tokeniser) and the run ends before render is called
AddFileOutcome(line, q) ==
  /\ pc = "addfile"
  /\ Len(file) < MaxLines
  /\ file' = Append(file, line)
  /\ \/ /\ ~q.err
        /\ SetProg(q)
        /\ pc' = pc
     \/ /\ q.err
        /\ pc' = "failed"
        /\ UNCHANGED progVars
  /\ UNCHANGED << optLibrary, outFile, codecVars, listVars >>

AddFile(line) == AddFileOutcome(line, addFileLine(Prog, line))

\* Program.render at the end of the file: open(fileName, "wb"), then
\* bytes(...) of the image, then write
RenderOK ==
  /\ pc = "addfile"
  /\ IsBytes(Image(store, code))
  /\ outFile' = FileWith(Image(store, code))
  /\ pc' = "made"
  /\ UNCHANGED << optLibrary, file, progVars, codecVars, listVars >>

\* Program.render: bytes(...) raises ValueError after open(fileName, "wb")
\* has created or truncated the file
RenderError ==
  /\ pc = "addfile"
  /\ ~IsBytes(Image(store, code))
  /\ outFile' = FileWith(<<>>)
  /\ pc' = "failed"
  /\ UNCHANGED << optLibrary, file, progVars, codecVars, listVars >>

\* __main__, list: ProgramLister(input_file, linenumbers) on the image made,
\* and the first statement of list_code
ListStart ==
  /\ pc = "made"
  /\ bin' = outFile.data
  /\ lp' = At(outFile.data, 0) * 256
  /\ text' = <<>>
  /\ listing' = <<>>
  /\ pc' = "list"
  /\ UNCHANGED << optLibrary, file, outFile, progVars, codecVars >>

\* the linenumbers option reaches ProgramLister as str(bool)
showLineNumbers == \A n \in BOOLEAN : Truthy(PyStr(n))

\* ProgramLister.list_code, one turn of the loop, with r the result of
\* listLine: the line is listed, or the turn ends the listing with an
\* exception (a read past the end of bin, a failure in listLine)
ListLineOutcome(r) ==
  /\ pc = "list"
  /\ \/ /\ InRange(bin, lp)
        /\ At(bin, lp) # 0
        /\ ~r.err
        /\ text' = r.text
        /\ listing' = Append(listing, r.text)
        /\ lp' = lp + At(bin, lp)
        /\ pc' = pc
     \/ /\ IF InRange(bin, lp) THEN At(bin, lp) # 0 /\ r.err ELSE TRUE
        /\ pc' = "listfailed"
        /\ UNCHANGED << lp, text, listing >>
  /\ UNCHANGED << optLibrary, file, outFile, bin, progVars, codecVars >>

ListLine == ListLineOutcome(listLine(bin, lp, showLineNumbers))

\* ProgramLister.list_code: the 0x00 terminator ends the loop
ListDone ==
  /\ pc = "list"
  /\ InRange(bin, lp)
  /\ At(bin, lp) = 0
  /\ pc' = "listed"
  /\ UNCHANGED << optLibrary, file, outFile, bin, lp, text, listing, progVars, codecVars >>

Next ==
  \/ MakeLibraryOption
  \/ \E line \in Lines : AddFile(line)
  \/ RenderOK
  \/ RenderError
  \/ ListStart
  \/ ListLine
  \/ ListDone

Spec == Init /\ [][Next]_vars


-----------------------------------------------------------------------------
(* The integer codec alone: renderConstant, then the lister's integer branch *)

\* integers 0..MaxInt are all enumerated
MaxInt == 130

\* integers at the edges of the digit counts, up to 2^31 - 1
EdgeInts ==
  { 4095, 4096, 262143, 262144, 16777215, 16777216, 1073741823, 1073741824,
    2147483646, 2147483647 }

IntInputs == (0..MaxInt) \cup EdgeInts

InitInt ==
  /\ pc = "int"
  /\ arg \in IntInputs
  /\ tcode = <<>>
  /\ val = 0
  /\ optLibrary = FALSE
  /\ file = <<>>
  /\ outFile = Absent
  /\ ProgramInit
  /\ ListIdle

\* Tokeniser.renderConstant(arg) into an empty code list
IntEncode ==
  /\ pc = "int"
  /\ tcode' = renderConstant(arg)
  /\ pc' = "intEncoded"
  /\ UNCHANGED << arg, val, optLibrary, file, outFile, progVars, listVars >>

\* ProgramLister.listOneElement on the bytes, which !!END follows in a line
IntDecode ==
  /\ pc = "intEncoded"
  /\ bin' = tcode \o <<ID_END>>
  /\ val' = IntLoop(tcode \o <<ID_END>>, 0, 0).v
  /\ text' = listOneElement(tcode \o <<ID_END>>, 0, <<>>).text
  /\ pc' = "intDecoded"
  /\ UNCHANGED << arg, tcode, optLibrary, file, outFile, progVars, lp, listing >>

NextInt == IntEncode \/ IntDecode

SpecInt == InitInt /\ [][NextInt]_vars

-----------------------------------------------------------------------------
(* The fraction codec alone: the !!DEC bytes, then the lister's !!DEC branch *)

\* digit strings of 1..MaxDigits digits are all enumerated
MaxDigits == 3

DigitChars == 48..57

\* digit strings of 4 to 8 digits
LongFractions ==
  { <<49, 50, 51, 52>>, <<57, 48, 57, 48, 53>>, <<48, 48, 48, 48, 48, 48>>,
    <<49, 50, 51, 52, 53, 54, 55>>, <<49, 50, 51, 52, 53, 54, 55, 56>>,
    <<57, 57, 57, 57, 57, 57, 57, 57>>, <<48, 48, 48, 48, 48, 48, 48, 48>> }

FracInputs == (UNION { [1..n -> DigitChars] : n \in 1..MaxDigits }) \cup LongFractions

InitFrac ==
  /\ pc = "frac"
  /\ arg \in FracInputs
  /\ tcode = <<>>
  /\ val = <<>>
  /\ optLibrary = FALSE
  /\ file = <<>>
  /\ outFile = Absent
  /\ ProgramInit
  /\ ListIdle

\* Tokeniser.tokeniseOne, fraction branch, for the digits arg
FracEncode ==
  /\ pc = "frac"
  /\ tcode' = encodeFraction(arg)
  /\ pc' = "fracEncoded"
  /\ UNCHANGED << arg, val, optLibrary, file, outFile, progVars, listVars >>

\* ProgramLister.listOneElement, !!DEC branch: val is the join of decode over
\* the packed bytes, text what the branch appends to an empty line
FracDecode ==
  /\ pc = "fracEncoded"
  /\ bin' = tcode \o <<ID_END>>
  /\ val' = JoinDecode(SubSeq(tcode, 3, 2 + tcode[2]))
  /\ text' = listOneElement(tcode \o <<ID_END>>, 0, <<>>).text
  /\ pc' = "fracDecoded"
  /\ UNCHANGED << arg, tcode, optLibrary, file, outFile, progVars, lp, listing >>

NextFrac == FracEncode \/ FracDecode

SpecFrac == InitFrac /\ [][NextFrac]_vars

-----------------------------------------------------------------------------
(* The identifier store alone: add, get and render *)

\* most add calls made on the store
MaxAdds == 3

\* i$, n(, s$(, ab, AB, x1
ShortNames ==
  { <<105, 36>>, <<110, 40>>, <<115, 36, 40>>, <<97, 98>>, <<65, 66>>, <<120, 49>> }

\* a name of 100 letters q
MidName == [i \in 1..100 |-> 113]

Names == ShortNames \cup {MidName, LineLongName}

InitStore ==
  /\ pc = "store"
  /\ \E st \in {StoreInit, ProgramStore} :
        store = st.store /\ identifiers = st.identifiers
  /\ file = <<>>
  /\ arg = <<>>
  /\ tcode = <<>>
  /\ val = 0
  /\ optLibrary = FALSE
  /\ outFile = Absent
  /\ nextLine = FirstLine
  /\ libraryMode = FALSE
  /\ code = <<>>
  /\ defines = NoIdentifiers
  /\ ListIdle

StoreNow == [store |-> store, identifiers |-> identifiers]

\* IdentifierStore.add(name); file keeps the names added, in order
StoreAdd(name) ==
  /\ pc = "store"
  /\ Len(file) < MaxAdds
  /\ AddAllowed(StoreNow, name)
  /\ store' = storeAdd(StoreNow, name).store
  /\ identifiers' = storeAdd(StoreNow, name).identifiers
  /\ file' = Append(file, name)
  /\ UNCHANGED << pc, arg, tcode, val, optLibrary, outFile, nextLine, libraryMode,
                  code, defines, listVars >>

\* IdentifierStore.add(name) of a name already present: the assertion fails
StoreAddAgain(name) ==
  /\ pc = "store"
  /\ ~AddAllowed(StoreNow, name)
  /\ arg' = name
  /\ pc' = "asserted"
  /\ UNCHANGED << file, tcode, val, optLibrary, outFile, progVars, listVars >>

\* IdentifierStore.render
StoreRender ==
  /\ pc = "store"
  /\ bin' = storeRender(store)
  /\ pc' = "rendered"
  /\ UNCHANGED << file, arg, tcode, val, optLibrary, outFile, progVars, lp, text,
                  listing >>

\* IdentifierStore.get(name), and the lister's identifier branch on the two
\* pointer bytes, reading the name from the rendered region
StoreGet(name) ==
  /\ pc = "rendered"
  /\ storeGet(identifiers, name) # None
  /\ arg' = name
  /\ val' = storeGet(identifiers, name)
  /\ tcode' = << storeGet(identifiers, name) \div 256, storeGet(identifiers, name) % 256 >>
  /\ text' = listOneElement(
               bin \o << storeGet(identifiers, name) \div 256,
                         storeGet(identifiers, name) % 256 >>, Len(bin), <<>>).text
  /\ UNCHANGED << pc, file, optLibrary, outFile, progVars, bin, lp, listing >>

NextStore ==
  \/ \E name \in Names : StoreAdd(name)
  \/ \E name \in Names : StoreAddAgain(name)
  \/ StoreRender
  \/ \E name \in Names : StoreGet(name)

SpecStore == InitStore /\ [][NextStore]_vars

-----------------------------------------------------------------------------
(* The lister alone on the record of one line: listLine's loop, one element
   a step *)

\* records of 1..MaxTokens token bytes are all enumerated
MaxTokens == 2

\* print, "=", "(", the digit 1, "$", the two shifts, a padding slot (0xA1),
\* and two bytes that are no token's id (0x31, 0xE8)
TokenBytes == { 198, 48, 130, 65, ID_DOLLAR, ID_SH1, ID_SH2, 161, 49, 232 }

TokenInputs == UNION { [1..n -> TokenBytes] : n \in 1..MaxTokens }

\* the image of a program of one line, and listLine up to its loop
InitList ==
  /\ pc = "element"
  /\ tcode \in TokenInputs
  /\ bin = Image(ProgramStore.store, LineRecord(FirstLine, tcode))
  /\ lp = Len(storeRender(ProgramStore.store)) + 3
  /\ text = Append(DecStr(FirstLine), 32)
  /\ listing = <<>>
  /\ arg = 0
  /\ val = 0
  /\ optLibrary = FALSE
  /\ file = <<>>
  /\ outFile = Absent
  /\ ProgramInit

\* ProgramLister.listLine, one turn of the loop, with r the result of
\* listOneElement: the element is rendered, or it raises and the listing ends
ListElementOutcome(r) ==
  /\ pc = "element"
  /\ IF InRange(bin, lp) THEN At(bin, lp) # ID_END ELSE TRUE
  /\ \/ /\ ~r.err
        /\ lp' = r.p
        /\ text' = r.text
        /\ pc' = pc
     \/ /\ r.err
        /\ pc' = "listfailed"
        /\ UNCHANGED << lp, text >>
  /\ UNCHANGED << arg, tcode, val, optLibrary, file, outFile, bin, listing, progVars >>

ListElement ==
  ListElementOutcome(IF InRange(bin, lp) THEN listOneElement(bin, lp, text)
                                         ELSE ListFail(lp, text))

\* ProgramLister.listLine: !!END ends the loop and the text joins the listing
ListEnd ==
  /\ pc = "element"
  /\ InRange(bin, lp)
  /\ At(bin, lp) = ID_END
  /\ listing' = Append(listing, text)
  /\ pc' = "listed"
  /\ UNCHANGED << arg, tcode, val, optLibrary, file, outFile, bin, lp, text, progVars >>

NextList == ListElement \/ ListEnd

SpecList == InitList /\ [][NextList]_vars

-----------------------------------------------------------------------------
(* Properties *)

\* offsets of the line records of b from offset p on, in order, following the
\* length bytes up to the 0x00 terminator or the end of b
RECURSIVE RecordStarts(_, _)
RecordStarts(b, p) ==
  IF ~InRange(b, p) THEN <<>>
  ELSE IF At(b, p) <= 0 THEN <<>>
  ELSE <<p>> \o RecordStarts(b, p + At(b, p))

\* the offset in the image of the first line record: the end of the rendered
\* identifier region
CodeStart == Len(storeRender(store))

\* the line number a record at offset p of b carries
NumberAt(b, p) == At(b, p + 1) + (256 * At(b, p + 2))

\* a step of Program.addFile in which addLine appends a record
AddsRecord == pc = "addfile" /\ Len(code') > Len(code)

\* the record that step appends
NewRecord == SubSeq(code', Len(code) + 1, Len(code'))

\* the source line that step handles
NewLine == file'[Len(file')]

\* C1: every line record that Program.addLine appends while library mode is
\* active has both line-number bytes equal to 0, whether the source line carries
\* an explicit number or takes the running one
LibraryRecordsAreZero ==
  [][(AddsRecord /\ libraryMode') => (NewRecord[2] = 0 /\ NewRecord[3] = 0)]_vars

\* C1: after #library, the line "10 A=5" has been added as a record numbered 0
LibraryRecordAdded ==
  /\ pc = "addfile"
  /\ libraryMode
  /\ file = <<LineLibrary, LineAssign>>
  /\ Len(code) = 8
  /\ NumberAt(code, 0) = 0
  /\ nextLine = 20

\* C2: when make runs with the library option, every line record of the image
\* it writes has line number 0
LibraryOptionZeroesImage ==
  (pc = "made" /\ optLibrary) =>
    \A i \in DOMAIN RecordStarts(outFile.data, CodeStart) :
      NumberAt(outFile.data, RecordStarts(outFile.data, CodeStart)[i]) = 0

\* C2: make has run with the library option and written an image with a record
LibraryOptionImageWritten ==
  /\ pc = "made"
  /\ optLibrary
  /\ RecordStarts(outFile.data, CodeStart) # <<>>

\* the text of a listed line without its "<number> " prefix
Unnumbered(t) == Drop(t, SpanDigits(t) + 1)

\* the token bytes of the record at offset p of b: what lies between the
\* line-number bytes and the closing !!END
RecordTokens(b, p) == SubSeq(b, p + 4, p + At(b, p) - 1)

\* the rendered identifier region is a whole number of pages
WholePages == Len(storeRender(store)) = 256 * At(store, 0)

\* the tokens of the listed text t, tokenised against the program's identifiers
Retokenised(t) == tokenise(Unnumbered(t), [store |-> store, identifiers |-> identifiers])

\* C3: a listed line is token-for-token the source line: tokenising the text
\* ProgramLister.listLine renders for a record gives back that record's tokens
LineRoundTrip ==
  (pc = "listed" /\ WholePages) =>
    /\ Len(listing) = Len(RecordStarts(bin, CodeStart))
    /\ \A i \in DOMAIN listing :
         /\ ~Retokenised(listing[i]).err
         /\ Retokenised(listing[i]).code = RecordTokens(bin, RecordStarts(bin, CodeStart)[i])

\* C3: a line has been tokenised, written and listed back
LineListedBack ==
  /\ pc = "listed"
  /\ WholePages
  /\ file = <<LineIfParen>>
  /\ Len(listing) = 1

RECURSIVE Pow64(_)
Pow64(e) == IF e = 0 THEN 1 ELSE 64 * Pow64(e - 1)

\* C4: the bytes renderConstant(n) emits all lie in [0x40, 0x80), carry the
\* base-64 digits of n most significant first, and the lister's accumulation
\* v = v*64 + (byte - 0x40) over them returns n, which it renders in decimal
IntegerRoundTrip ==
  pc = "intDecoded" =>
    /\ \A i \in DOMAIN tcode : tcode[i] >= 64 /\ tcode[i] < 128
    /\ \A i \in DOMAIN tcode : tcode[i] - 64 = (arg \div Pow64(Len(tcode) - i)) % 64
    /\ val = arg
    /\ text = DecStr(arg)

\* C4: the largest integer of the range, 2^31 - 1, has gone through both ways
\* as six digit bytes
LargestIntegerDecoded ==
  /\ pc = "intDecoded"
  /\ arg = 2147483647
  /\ Len(tcode) = 6
  /\ val = 2147483647

\* C5: for a string of 1 to 8 decimal digits, decoding the packed bytes that
\* follow the !!DEC token and their length byte (high nibble then low nibble, a
\* nibble of 15 rendering nothing) yields exactly that string
FractionRoundTrip ==
  pc = "fracDecoded" =>
    /\ tcode[1] = ID_DEC
    /\ tcode[2] = Len(tcode) - 2
    /\ val = arg
    /\ text = <<46>> \o arg

\* C5: the eight digits 12345678 have gone through both ways, packed with
\* their sentinel into five bytes
EightDigitsDecoded ==
  /\ pc = "fracDecoded"
  /\ arg = <<49, 50, 51, 52, 53, 54, 55, 56>>
  /\ tcode[2] = 5
  /\ val = arg

\* the bytes the records of the names take: 6 and the name for each
RECURSIVE RecordBytes(_)
RecordBytes(names) ==
  IF names = <<>> THEN 0 ELSE 6 + Len(Head(names)) + RecordBytes(Tail(names))

\* the offset at which the record of the i-th added name starts: the length
\* the store had before that add
RecordOffset(i) == (Len(store) - RecordBytes(file)) + RecordBytes(SubSeq(file, 1, i - 1))

\* C6: after any sequence of add calls with distinct names (identifier names
\* are taken case-insensitively and kept in upper case), get(name) is the
\* offset of the name's record plus 1 whatever was added later; the rendered
\* region read from that pointer plus 5 up to and including the first byte with
\* bit 0x80 gives the name; and the record's control byte carries 0x80 for a
\* string name and 0x10 for an array name
IdentifierRoundTrip ==
  pc \in {"store", "rendered"} =>
    /\ \A i \in DOMAIN file :
         /\ storeGet(identifiers, file[i]) = RecordOffset(i) + 1
         /\ At(storeRender(store), RecordOffset(i)) = 6 + Len(file[i])
         /\ ~NameLoop(storeRender(store), RecordOffset(i) + 1 + 5).err
         /\ NameLoop(storeRender(store), RecordOffset(i) + 1 + 5).name = Upper(file[i])
         /\ At(storeRender(store), RecordOffset(i) + 5) =
              (IF EndsWith(file[i], <<36>>) \/ EndsWith(file[i], <<36, 40>>) THEN 128 ELSE 0)
                + (IF EndsWith(file[i], <<40>>) THEN 16 ELSE 0)
    /\ (pc = "rendered" /\ arg # <<>>) =>
         /\ val = storeGet(identifiers, arg)
         /\ text = Lower(arg)

\* C6: the string array s$( was added first, two more names after it, and get
\* and the lister's read of the rendered region give its pointer and name back
StringArrayRecovered ==
  /\ pc = "rendered"
  /\ Len(file) = 3
  /\ file[1] = <<115, 36, 40>>
  /\ arg = file[1]
  /\ val = Len(store) - RecordBytes(file) + 1
  /\ text = file[1]
  /\ At(bin, val + 4) = 144

\* C7: render() returns exactly pageCount*256 bytes, pageCount being its first
\* byte: the store's records followed only by zero padding
RenderIsWholePages ==
  pc = "rendered" =>
    /\ Len(bin) = 256 * At(bin, 0)
    /\ SubSeq(bin, 1, Len(store)) = store
    /\ {i \in (Len(store) + 1)..Len(bin) : bin[i] # 0} = {}

\* C7: a store has been rendered after three adds
StoreRendered == pc = "rendered" /\ Len(file) = 3

\* C8: every record Program.addLine appends is [length, line-number low byte,
\* line-number high byte, token bytes..., id(!!END)], its length byte the
\* number of bytes of the whole record and no more than one byte holds; and
\* "10 A=5" gives [8, 10, 0, pointer of A high, low, id(=), 0x45, id(!!END)]
RecordLayout ==
  [][AddsRecord =>
       /\ NewRecord[1] = Len(NewRecord)
       /\ NewRecord[1] < 256
       /\ NewRecord[Len(NewRecord)] = ID_END
       /\ (~libraryMode' => NumberAt(NewRecord, 0) = nextLine' - lineStep)
       /\ (NewLine = LineAssign /\ ~libraryMode') =>
            NewRecord = <<8, 10, 0, 0, 2, getByName(<<61>>), 69, ID_END>>]_vars

\* C8: the record of "10 A=5" has been appended
AssignRecordAdded ==
  /\ pc = "addfile"
  /\ file = <<LineAssign>>
  /\ code = <<8, 10, 0, 0, 2, getByName(<<61>>), 69, ID_END>>

\* the explicit number of the source line a step handles, None without one
NewNumber == NumberSplit(processIdentifiers(Strip(NewLine), defines)).number

\* the number current for the record a step adds
NewCurrent == IF NewNumber # None THEN NewNumber ELSE nextLine

\* what C9 asks of a step of Program.addFile that handles a line, current being
\* the number current for the line
NumberingStep(current) ==
  /\ AddsRecord =>
       /\ ~libraryMode' => NumberAt(NewRecord, 0) = current
       /\ nextLine' = current + 10
  /\ (~AddsRecord /\ nextLine' # nextLine) =>
       /\ Strip(NewLine) = <<35>> \o WordNoLibrary
       /\ nextLine' = 1000
       /\ ~libraryMode'
  /\ (pc' = "addfile" /\ NewLine = LineNoLibrary) => nextLine' = 1000

\* C9: the running counter starts at 100; outside library mode a record
\* carries the explicit number N of its line, else the counter; every record
\* added, in library mode too, leaves the counter at its current number plus
\* 10; #nolibrary sets the counter to 1000; nothing else moves the counter
LineNumbering ==
  [][/\ pc = "start" => nextLine = 100
     /\ (pc = "addfile" /\ file' # file) => NumberingStep(NewCurrent)]_vars

\* C9: after #nolibrary, a line without a number has been added as record 1000
NoLibraryRecordAdded ==
  /\ pc = "addfile"
  /\ file = <<LineNoLibrary, LinePrint>>
  /\ NumberAt(code, 0) = 1000
  /\ nextLine = 1010

\* C10: a make run that ends in an error leaves the output file as it was:
\* neither created nor modified
FailureLeavesOutput == [][pc' = "failed" => outFile' = outFile]_vars

\* C10: a make run has ended in an error
MakeFailed == pc = "failed"

-----------------------------------------------------------------------------
(* The lister on a byte that names no token *)

\* listOneElement's last elif: the bytes of the token branch
IsTokenByte(n) ==
  (n >= 128 \/ (n >= 32 /\ n < 64)) /\ n # ID_STR /\ n # ID_DEC /\ n # ID_DOLLAR

\* the id the token branch hands to getByID for the element at p
TokenAt(b, p) ==
  LET n  == At(b, p)
      n1 == IF n = ID_SH1 THEN At(b, p + 1) + 256 ELSE n
      p1 == IF n = ID_SH1 THEN p + 2 ELSE p + 1
  IN  IF n1 = ID_SH2 THEN At(b, p1) + 512 ELSE n1

\* the bytes of a shift are in the image
ShiftInRange(b, p) ==
  /\ At(b, p) = ID_SH1 => InRange(b, p + 1)
  /\ At(b, p) = ID_SH2 => InRange(b, p + 1)

\* a token element whose id has no table entry, or a padding slot's
NamesNoToken(b, p) ==
  /\ InRange(b, p)
  /\ IsTokenByte(At(b, p))
  /\ ShiftInRange(b, p)
  /\ ~HasID(TokenAt(b, p)) \/ getByID(TokenAt(b, p)) = <<>>

\* "[{0:02x}]".format(n)
HexEscape(n) == <<91>> \o (IF n < 16 THEN <<48>> ELSE <<>>) \o HexStr(n) \o <<93>>

\* C11: a step of the lister at a token byte that names no token (no table
\* entry, a padding slot, an unassigned id behind a shift) appends the
\* bracketed two-hex-digit escape of that byte to the text and goes on with
\* the next byte; it does not fail
UnknownByteEscaped ==
  [][(pc = "element" /\ NamesNoToken(bin, lp))
       => /\ pc' = "element"
          /\ lp' > lp
          /\ text' = text \o HexEscape(At(bin, lp))]_vars

\* the lister has failed at a byte that names no token
UnknownByteMet == pc = "listfailed" /\ NamesNoToken(bin, lp)

-----------------------------------------------------------------------------
(* The bytes of a fraction *)

\* the values of the digit characters
DigitValues(digitChars) == [i \in 1..Len(digitChars) |-> digitChars[i] - 48]

\* consecutive pairs of nibbles as bytes, high * 16 + low
PackPairs(nibbles) ==
  [i \in 1..(Len(nibbles) \div 2) |-> nibbles[2 * i - 1] * 16 + nibbles[2 * i]]

\* C12, as stated: after !!DEC come the length byte ceil(len(d)/2) and the
\* packed digits, the sentinel 15 appended only to an odd number of digits
FractionPaddedWhenOdd ==
  pc \in {"fracEncoded", "fracDecoded"} =>
    tcode = <<ID_DEC, (Len(arg) + 1) \div 2>>
              \o PackPairs(IF Len(arg) % 2 = 1 THEN Append(DigitValues(arg), 15)
                                               ELSE DigitValues(arg))

\* C12, amended: after !!DEC come the length byte len(d) div 2 + 1 and the
\* packed digits, to which the sentinel 15 is appended once for an odd number
\* of digits and twice for an even number
FractionAlwaysPadded ==
  pc \in {"fracEncoded", "fracDecoded"} =>
    tcode = <<ID_DEC, (Len(arg) \div 2) + 1>>
              \o PackPairs(IF Len(arg) % 2 = 1 THEN Append(DigitValues(arg), 15)
                                               ELSE DigitValues(arg) \o <<15, 15>>)

\* C12: the two digits 12 have been encoded, with a byte of two sentinels
EvenDigitsEncoded ==
  /\ pc = "fracEncoded"
  /\ arg = <<49, 50>>
  /\ tcode = <<ID_DEC, 2, 18, 255>>

-----------------------------------------------------------------------------
(* The page count of the identifier store *)

\* the store's first byte
pageCount(s) == s[1]

\* a step of add: the store has grown by a record
StoreGrows == pc = "store" /\ Len(store') > Len(store)

\* C13, as stated: pageCount starts at 1, and add increments it by 1 exactly
\* when bit 0x80 of the store length before the record differs from bit 0x80
\* of the length after it, and leaves it unchanged otherwise
PageCountOnBitChange ==
  [][/\ (pc = "store" /\ file = <<>>) => pageCount(store) = 1
     /\ StoreGrows =>
          pageCount(store') =
            pageCount(store)
              + (IF Bit80(Len(store)) # Bit80(Len(store')) THEN 1 ELSE 0)]_vars

\* C13, amended: pageCount starts at 1, and add increments it by 1 exactly
\* when bit 0x80 of the store length before the record is clear and bit 0x80
\* of the length after it is set, and leaves it unchanged otherwise
PageCountOnBitSet ==
  [][/\ (pc = "store" /\ file = <<>>) => pageCount(store) = 1
     /\ StoreGrows =>
          pageCount(store') =
            pageCount(store)
              + (IF Bit80(Len(store)) = 0 /\ Bit80(Len(store')) = 1 THEN 1 ELSE 0)]_vars

\* C13: after the long name (1 to 222 bytes, the bit becoming set) the name
\* of 100 letters has been added (222 to 328 bytes, the bit becoming clear)
\* and pageCount is still 2
BitClearedByAdd ==
  /\ pc = "store"
  /\ file = <<LineLongName, MidName>>
  /\ Len(store) = 328
  /\ pageCount(store) = 2

-----------------------------------------------------------------------------
(* The space between two fragments of a listed line *)

\* the fragments listOneElement hands to append for the element at p: the
\* decimal digits of an integer, " $" and the hex digits, or a token's name
ElementFragments(b, p) ==
  IF At(b, p) >= 64 /\ At(b, p) < 128 THEN << DecStr(IntLoop(b, p, 0).v) >>
  ELSE IF At(b, p) = ID_DOLLAR THEN << <<32, 36>>, HexStr(IntLoop(b, p + 1, 0).v) >>
  ELSE << getByID(TokenAt(b, p)) >>

\* letter, digit or underscore, whatever the case
IdentifierClass(c) ==
  (c >= 48 /\ c <= 57) \/ (c >= 65 /\ c <= 90) \/ (c >= 97 /\ c <= 122) \/ c = 95

\* the three classes of characters: the space, identifier-class, the others
CharClass(c) ==
  IF c = 32 THEN "space" ELSE IF IdentifierClass(c) THEN "identifier" ELSE "other"

\* the fragments joined to t, a space only between two identifier-class
\* characters
RECURSIVE JoinIdentifiers(_, _)
JoinIdentifiers(t, frags) ==
  IF frags = <<>> THEN t
  ELSE LET s == Head(frags)
       IN  JoinIdentifiers(
             IF IdentifierClass(t[Len(t)]) /\ IdentifierClass(s[1])
               THEN t \o <<32>> \o s ELSE t \o s,
             Tail(frags))

\* the fragments joined to t, a space between two characters of one class
RECURSIVE JoinClasses(_, _)
JoinClasses(t, frags) ==
  IF frags = <<>> THEN t
  ELSE LET s == Head(frags)
       IN  JoinClasses(
             IF CharClass(t[Len(t)]) = CharClass(s[1])
               THEN t \o <<32>> \o s ELSE t \o s,
             Tail(frags))

\* a step of the lister that has rendered an element
ElementRendered == pc = "element" /\ pc' = "element" /\ lp' # lp

\* C14, as stated: a fragment appended to a non-empty text gets a single
\* space before it only when the last character of the text and the first of
\* the fragment are both identifier-class; in every other case, two adjacent
\* punctuation characters included, it is concatenated with no separator
SpaceBetweenIdentifiersOnly ==
  [][ElementRendered => text' = JoinIdentifiers(text, ElementFragments(bin, lp))]_vars

\* C14, amended: a non-empty fragment appended to a non-empty text gets a
\* single space before it exactly when the last character of the text and
\* the first of the fragment are of one class (both identifier-class, both
\* the space, or both neither), and is concatenated with no separator
\* otherwise
SpaceBetweenEqualClasses ==
  [][ElementRendered => text' = JoinClasses(text, ElementFragments(bin, lp))]_vars

\* C14: "=" has been appended to a text ending in "=", giving "100 = ="
TwoPunctuationsListed ==
  /\ pc = "element"
  /\ tcode = <<48, 48>>
  /\ text = <<49, 48, 48, 32, 61, 32, 61>>

-----------------------------------------------------------------------------
(* Lines without text *)

\* the line is blank, or holds only a // comment
EmptyEffectiveText(line) ==
  Strip(line) = <<>> \/ StartsWith(Strip(line), <<47, 47>>)

\* a step of Program.addFile that has handled a line without raising
LineHandled == pc = "addfile" /\ Len(file') > Len(file) /\ pc' = "addfile"

\* C15: a source line whose effective text is empty (blank, or only a //
\* comment) is skipped: the step appends no line record and leaves the
\* running line number unchanged
EmptyLineSkipped ==
  [][(LineHandled /\ EmptyEffectiveText(NewLine))
       => (code' = code /\ nextLine' = nextLine)]_vars

\* the line "// note" has been handled as the first of the file: a record
\* without tokens is in the program and the running number has advanced
CommentLineRecorded ==
  /\ pc = "addfile"
  /\ file = <<LineSlashes>>
  /\ code = <<4, FirstLine, 0, ID_END>>
  /\ nextLine = FirstLine + lineStep
====
